---- MODULE Spec2Model ----
(***************************************************************************)
(* Model of the bounded-concurrency OCR pipeline of catalinfl/extractor:   *)
(* the OCR worker pool and the fan-out/fan-in batch executor               *)
(* (extractOCRFromPDF), the circuit breaker, and the sequential            *)
(* summarization batch (generateLevelSummary).                             *)
(*                                                                         *)
(* Line numbers refer to src/unnamed/part_002 (the OCR service with the    *)
(* job queue) unless a file is named.  Sequences are 1-based here: page    *)
(* index i of the model is index i-1 of the Go slices.                     *)
(***************************************************************************)
EXTENDS Integers, Sequences, FiniteSets, TLC

\* ------------------------------------------------------------------ bounds

\* Total number of page images admitted over one run of the pool model.
MaxUnits == 3
\* Largest OCR_WORKERS value explored (initOCRPool caps the value at 4).
MaxEnvWorkers == 2
\* Request handlers that use the circuit breaker concurrently.
MaxHandlers == 2
\* Recovery windows the clock runs through.
MaxWindows == 1

\* Sampling periods the clock of the admission model runs through.
MaxSamples == 1
\* Largest number of synchronous jobs in flight in the admission model.
MaxRunning == 3

\* Clients of the asynchronous endpoints, each with one job.
MaxClients == 2
\* Ids the worker loops receive from a full channel.
MaxDequeues == 2

\* Largest page count of the PDF whose dispatch loop is followed.
MaxPages == 10
\* Largest value of OCR_WORKERS the process is started with.
MaxEnvValue == 5
\* Requests that arrive while ocrPool may still be nil.
MaxStarters == 2

\* Longest text given to chunkTextByPages, in characters.
MaxTextLen == 6

\* Concurrent level-summary requests.
MaxSummaryCalls == 2
\* Largest number of chunks chunkTextByPages returns.
MaxChunks == 3

\* -------------------------------------------------------- program constants

\* initOCRPool, line 417: workers := 2
DefaultPoolWorkers == 2
\* initOCRPool, line 426: "if workers > 4 { workers = 4 }"
MaxPoolWorkers == 4
\* initOCRPool, line 432: make(chan OCRJob, workers*2)
QueueFactor == 2
\* extractOCRFromPDF, line 624: "if batchSize > 4 { batchSize = 4 }"
MaxBatchSize == 4

\* src/ocr.go, line 49: "var maxConcurrentJobs int64 = 3" (the ceiling is 10
\* in src/unnamed/part_002, line 78; checkSystemLoad is the same in both).
MaxConcurrentJobs == 3
\* checkSystemLoad, line 352: 2*time.Second, in seconds
SamplePeriod == 2

\* initJobQueue, line 89: workers := 2 (QUEUE_WORKERS is left unset)
DefaultQueueWorkers == 2

\* initJobQueue, line 99: make(chan string, 50)
PendingCap == 50

\* CircuitState (lines 339-343).
Closed == 0
Open == 1
HalfOpen == 2
\* recordFailure, line 402: "if atomic.LoadInt64(&failures) >= 3"
FailureThreshold == 3
\* isCircuitOpen, line 384: 10*time.Second, in seconds
RecoveryWindow == 10

\* ---------------------------------------------------------------- helpers

Min(a, b) == IF a < b THEN a ELSE b
Max(a, b) == IF a > b THEN a ELSE b

Requests == 1..MaxUnits
Handlers == 1..MaxHandlers
SummaryCalls == 1..MaxSummaryCalls
Clients == 1..MaxClients
JobIds == 1..MaxClients
\* Each queue is created by a request that saw the global nil.
Queues == 1..MaxClients
Starters == 1..MaxStarters
\* Each pool is created by a request that saw ocrPool nil.
Pools == 1..MaxStarters
\* With the channel full: the ids waiting in it, behind the ones the worker
\* loops are processing, and all the ids there can be.
Backlog == (DefaultQueueWorkers + 1)..(DefaultQueueWorkers + PendingCap)
FullIds == 1..(DefaultQueueWorkers + PendingCap + MaxClients)

\* The zero time.Time of an unset timestamp: long ago.
ZeroTime == 0 - (RecoveryWindow + 1)
\* The clock stops here.
MaxTime == MaxWindows * (RecoveryWindow + 1)
\* The clock is read a window, or just over a window, after the last reading.
TickSteps == {RecoveryWindow, RecoveryWindow + 1}
\* The admission model's clock: it stops at MaxLoadTime, and is read just
\* under a sampling period, or a sampling period, after the last reading.
MaxLoadTime == MaxSamples * SamplePeriod
LoadTickSteps == {SamplePeriod - 1, SamplePeriod}

\* ------------------------------------------------------------------ state

VARIABLES
    poolWorkers,   \* ocrPool.workers; 0 while ocrPool == nil
    jobQueue,      \* ocrPool.jobQueue: the buffered channel of OCRJob
    executing,     \* the OCRJobs the pool's worker loops are running
    req,           \* per request: the extractOCRFromPDF call's position and return value
    tasks,         \* per request: its sub-range goroutines
    resultChan,    \* per request: the buffered channel of pageResult
    wg,            \* per request: the sync.WaitGroup counter
    ocrOutcome,    \* history: what performOCRDirect returned for each image, and who ran it
    arrival,       \* history: the page indices in the order they were sent on resultChan
    circuitState,    \* the breaker's state (an int32 read and written atomically)
    failures,        \* the breaker's failure counter (int64, atomic)
    lastFailureTime, \* time of the last recordFailure
    now,             \* the clock, in seconds
    hpc,             \* per request handler: where it is in handleExtractOCR
    streak,          \* history: recordFailure calls completed since the breaker was last
                     \* reset with nothing else interfering; Broken otherwise
    cleanSuccess,    \* history: the handlers in recordSuccess that no recordFailure overlaps
    sinceSuccess,    \* history: recordFailure calls begun since a recordSuccess last reset
                     \* the counter (at most FailureThreshold are counted)
    trippedAt,       \* history: when the breaker last tripped to Open
    trialsThisWindow, \* history: isCircuitOpen calls that returned false with the breaker
                     \* Open or HalfOpen, since the last recordFailure
    lvl,             \* per summary request: the generateLevelSummary call
    currentJobs,     \* the concurrent-job counter (int64, atomic)
    cpuLoadHigh,     \* the cached verdict of checkSystemLoad (a plain bool)
    lastCPUCheck,    \* the time of the last sample (a plain time.Time)
    lpc,             \* per request handler: where it is in checkSystemLoad
    ltime,           \* per request handler: checkSystemLoad's local "now", kept from
                     \* line 351 to line 356 (0 when not in use)
    globalJobQueue,  \* the queue the global names; 0 while it is nil
    queuesMade,      \* the OCRJobQueue values created so far
    queueWorkers,    \* per queue: the worker loops started on it
    jobs,            \* the job maps: the job records by id, each with the queue
                     \* whose map holds it (NoJob: no entry)
    pending,         \* per queue: its buffered channel of job ids
    nextId,          \* the job ids generateJobID has handed out so far, plus one
    processing,      \* the processJob calls the queue's worker loops are running
    cl,              \* per client: its asynchronous request
    lastPoll,        \* the last status request answered: id, queue asked, response
                     \* (history)
    gpc,             \* per request handler: its position in handleExtractOCR
    gates,           \* per request handler: the gates its request has passed
                     \* through, in order (history)
    touched,         \* per request handler: what its request has written or
                     \* started so far (history)
    gout,            \* per request handler: the file type of its request, and
                     \* what its OCR unit and its extraction function returned
    part,            \* one extractOCRFromPDF call's dispatch loop: the page count,
                     \* the pool's worker count, batchSize, i and the sub-ranges
                     \* dispatched so far
    ocrWorkersEnv,   \* the OCR_WORKERS environment variable (0: unset or not a
                     \* positive number)
    ocrPool,         \* the pool the global names; 0 while it is nil
    poolsMade,       \* the OCRWorkerPool values created so far
    poolLoops,       \* per pool: the worker loops started on it
    st,              \* per first request: its position around initOCRPool
    ck               \* one chunkTextByPages call: its arguments, chunkSize, i and
                     \* the source ranges of the chunks appended so far

poolVars == <<poolWorkers, jobQueue, executing, req, tasks, resultChan, wg, ocrOutcome, arrival>>

breakerVars == <<circuitState, failures, lastFailureTime, now, hpc, streak, cleanSuccess, sinceSuccess,
                 trippedAt, trialsThisWindow>>

summaryVars == <<lvl>>

loadVars == <<currentJobs, cpuLoadHigh, lastCPUCheck, lpc, ltime>>

\* The breaker's variables but the clock.
breakerButClock == <<circuitState, failures, lastFailureTime, hpc, streak, cleanSuccess, sinceSuccess,
                     trippedAt, trialsThisWindow>>

jobVars ==
    <<globalJobQueue, queuesMade, queueWorkers, jobs, pending,
      nextId, processing, cl, lastPoll>>

gateVars == <<gpc, gates, touched, gout>>

partVars == <<part>>

startVars == <<ocrWorkersEnv, ocrPool, poolsMade, poolLoops, st>>

chunkVars == <<ck>>

\* The history the breaker and admission properties keep for their own steps.
stepHistory ==
    <<hpc, streak, cleanSuccess, sinceSuccess, trippedAt, trialsThisWindow, lpc, ltime>>

otherThanPool ==
    <<breakerVars, summaryVars, loadVars, jobVars, gateVars, partVars, startVars, chunkVars>>
otherThanBreaker ==
    <<poolVars, summaryVars, loadVars, jobVars, gateVars, partVars, startVars, chunkVars>>
otherThanSummary ==
    <<poolVars, breakerVars, loadVars, jobVars, gateVars, partVars, startVars, chunkVars>>
otherThanLoad ==
    <<poolVars, breakerButClock, summaryVars, jobVars, gateVars, partVars, startVars, chunkVars>>
otherThanJobs ==
    <<poolVars, breakerVars, summaryVars, loadVars, gateVars, partVars, startVars, chunkVars>>
otherThanGate == <<poolVars, summaryVars, jobVars, stepHistory, partVars, startVars, chunkVars>>

otherThanPart ==
    <<poolVars, breakerVars, summaryVars, loadVars, jobVars, gateVars, startVars, chunkVars>>
otherThanChunk ==
    <<poolVars, breakerVars, summaryVars, loadVars, jobVars, gateVars, partVars, startVars>>
otherThanStart ==
    <<poolVars, breakerVars, summaryVars, loadVars, jobVars, gateVars, partVars, chunkVars>>

vars ==
    <<poolVars, breakerVars, summaryVars, loadVars, jobVars, gateVars,
      partVars, startVars, chunkVars>>

\* ------------------------------------------------------------ OCR results

NilErr == [kind |-> "nil", r |-> 0, i |-> 0]
EmptyText == [kind |-> "empty", r |-> 0, i |-> 0]

\* The text Tesseract reads from image <<r, i>>.
TextOf(image) == [kind |-> "text", r |-> image[1], i |-> image[2]]
\* The error Tesseract returns for image <<r, i>>.
ErrOf(image) == [kind |-> "error", r |-> image[1], i |-> image[2]]

\* performOCRDirect: the external OCR engine; ok is the engine's outcome.
PerformOCRDirect(image, ok) ==
    IF ok THEN [text |-> TextOf(image), err |-> NilErr]
          ELSE [text |-> EmptyText, err |-> ErrOf(image)]

\* fmt.Sprintf("[OCR Error: %v]", err)
ErrorMarker(err) == [kind |-> "marker", r |-> err.r, i |-> err.i]

\* Variant: the error is dropped and the (empty) text kept.
PageTextNoMarker(res) == res.text

\* The page text a sub-range task makes of an OCR result (lines 641-644).
PageText(res) == IF res.err # NilErr THEN ErrorMarker(res.err) ELSE res.text

\* History records of a unit's execution.
NotRun == [res |-> "none", by |-> "none"]
Ran(ok, by) == [res |-> IF ok THEN "ok" ELSE "fail", by |-> by]

\* --------------------------------------------------------- batch partition

\* Variant: the batch size does not take the worker count into account.
BatchSizeIgnoringWorkers(n, workers) == Min(n, MaxBatchSize)

\* extractOCRFromPDF, lines 620-626.
BatchSize(n, workers) ==
    LET b0 == n \div workers
        b1 == IF b0 < 1 THEN 1 ELSE b0
    IN  IF b1 > MaxBatchSize THEN MaxBatchSize ELSE b1

\* The loop of lines 631-648: sub-range k covers pages start..stop-1
\* (1-based: start = (k-1)*batchSize + 1).
NumTasks(n, batchSize) == (n + batchSize - 1) \div batchSize

SubRanges(n, batchSize) ==
    [k \in 1..NumTasks(n, batchSize) |->
        [start |-> (k - 1) * batchSize + 1,
         stop  |-> Min((k - 1) * batchSize + batchSize, n) + 1]]

\* A freshly spawned sub-range goroutine: about to call processOCR for start.
NewTask(range) ==
    [start |-> range.start, stop |-> range.stop, idx |-> range.start,
     pc |-> "submit", result |-> <<>>]

\* -------------------------------------------------------------- collection

\* Variant: the results are stored in the order they arrived.
CollectInArrivalOrder(chan, pages) ==
    [i \in DOMAIN pages |-> IF i <= Len(chan) THEN chan[i].text ELSE pages[i]]

\* Lines 654-657: pages[result.index] = result.text, in channel order.
RECURSIVE Collect(_, _)
Collect(chan, pages) ==
    IF chan = <<>> THEN pages
    ELSE Collect(Tail(chan), [pages EXCEPT ![Head(chan).index] = Head(chan).text])

\* make([]string, len(imageFiles)): n empty strings.
EmptyPages(n) == [i \in 1..n |-> EmptyText]

\* ------------------------------------------- summaries (src/summary.go)

NoSummary == [kind |-> "empty", i |-> 0]
NoErr == [kind |-> "nil", i |-> 0]
\* generateChunkSummary's results for chunk i (src/summary.go lines 199-204).
ChunkSummaryOf(i) == [kind |-> "chunk", i |-> i]
ChunkErrOf(i) == [kind |-> "chunk error", i |-> i]
\* generateFinalSummaryForLevel's results for n joined chunk summaries
\* (src/summary.go lines 282-287).
FinalSummaryOf(n) == [kind |-> "final", i |-> n]
FinalErr == [kind |-> "final error", i |-> 0]

\* A generateLevelSummary call: its position, its locals, its return value,
\* the response handleLevelSummary sends, and the history of the calls made.
NoCall ==
    [pc |-> "idle", n |-> 0, i |-> 0, summaries |-> <<>>,
     summary |-> NoSummary, err |-> NoErr, status |-> 0,
     executed |-> {}, combined |-> FALSE, failedAt |-> 0]

\* src/summary.go lines 228-230 and 232: after the loop, a single summary is
\* returned as it is; several go to the combine step.
AfterLoop(c) ==
    IF c.i <= c.n THEN c
    ELSE IF Len(c.summaries) = 1
         THEN [c EXCEPT !.pc = "returned", !.summary = c.summaries[1], !.err = NoErr]
         ELSE [c EXCEPT !.pc = "combine"]

\* src/summary.go line 224: the chunk's summary is appended, the loop goes on.
ChunkDone(c) ==
    AfterLoop([c EXCEPT !.executed = @ \cup {c.i},
                        !.summaries = Append(@, ChunkSummaryOf(c.i)),
                        !.i = @ + 1])

\* Variant: the failed chunk is replaced by its error text and the loop goes
\* on, as the OCR batch does.
ChunkFailedContinue(c) ==
    AfterLoop([c EXCEPT !.executed = @ \cup {c.i},
                        !.summaries = Append(@, ChunkErrOf(c.i)),
                        !.failedAt = c.i,
                        !.i = @ + 1])

\* src/summary.go lines 220-222: "if err != nil { return "", err }".
ChunkFailed(c) ==
    [c EXCEPT !.executed = @ \cup {c.i},
              !.failedAt = c.i,
              !.pc = "returned", !.summary = NoSummary, !.err = ChunkErrOf(c.i)]

\* ------------------------------------------------------------ job records

\* job.Result == nil.
NilResult == [success |-> FALSE, status |-> "nil"]

\* No entry in the job map.
NoJob ==
    [q |-> 0, status |-> "none", started |-> FALSE, finished |-> FALSE,
     result |-> NilResult]

\* submitJob, lines 204-212: the new OCRJobRequest.
NewJob ==
    [q |-> 0, status |-> "pending", started |-> FALSE, finished |-> FALSE,
     result |-> NilResult]

\* Variant: the job is not stored.
PutJobNowhere(js, id, k) == js

\* q.jobs[jobID] = job, line 215, in the map of queue k.
PutJob(js, id, k) == [js EXCEPT ![id] = [NewJob EXCEPT !.q = k]]

\* job, exists := q.jobs[jobID] (lines 119 and 234), in the map of queue k.
HasJob(js, id, k) == js[id] # NoJob /\ js[id].q = k

\* Variant: the rejected job stays in the map.
DeleteNothing(js, id) == js

\* delete(q.jobs, jobID), line 225.
DeleteJob(js, id) == [js EXCEPT ![id] = NoJob]

\* Variant: processJob leaves the status as it is when it starts.
MarkNothing(job) == job

\* processJob, lines 127-131: Status = "processing", Started = &now.
MarkProcessing(job) == [job EXCEPT !.status = "processing", !.started = TRUE]

\* Variant: every response of performOCRJob says "completed".
OCRJobResultAlwaysCompleted(ok) == [success |-> ok, status |-> "completed"]

\* performOCRJob, lines 161-197: the OCRResponse it returns, as its Success
\* and Status fields.
OCRJobResult(ok) ==
    IF ok THEN [success |-> TRUE, status |-> "completed"]
          ELSE [success |-> FALSE, status |-> "failed"]

\* Variant: the result and the status are stored, Finished is left nil.
FinishJobNoTimestamp(job, res) ==
    [job EXCEPT !.result = res,
                !.status = IF res.success = FALSE THEN "failed" ELSE "completed"]

\* Variant: only the result is stored.
FinishJobResultOnly(job, res) == [job EXCEPT !.result = res]

\* processJob, lines 137-145: Result, Status and Finished, written in one
\* critical section of job.mu.
FinishJob(job, res) ==
    [job EXCEPT !.result = res,
                !.status = IF res.success = FALSE THEN "failed" ELSE "completed",
                !.finished = TRUE]

\* getJobStatus, lines 249-257: the stored result if there is one, else a
\* response with the job's status.
StatusResponse(job) ==
    IF job.result # NilResult THEN job.result
    ELSE [success |-> TRUE, status |-> job.status]

\* getJobStatus, lines 237-244: the response for an id without an entry.
NotFound == [success |-> FALSE, status |-> "not_found"]

\* A client: its position, the id generated inside submitJob, the id
\* submitJob returned to the handler (0: none, or ""), the gates the request
\* has passed (history), the queue it submitted to, and the worker loops
\* initJobQueue has yet to start.
NoClient == [pc |-> "idle", job |-> 0, id |-> 0, q |-> 0, w |-> 0, gates |-> <<>>]

\* No status request answered yet.
NoResponse == [success |-> FALSE, status |-> "none"]
NoPoll == [id |-> 0, q |-> 0, resp |-> NoResponse]

\* The errors of the steps before the OCR: the image file could not be
\* written (line 674), the PDF could not be converted (lines 584-608).
WriteErr == [kind |-> "write", r |-> 0, i |-> 0]
ConvertErr == [kind |-> "convert", r |-> 0, i |-> 0]

\* extractOCRFromImage, lines 671-685: written, the image file was written;
\* res, what processOCR returned for it.
ExtractOCRFromImage(written, res) ==
    IF ~written THEN [pages |-> <<>>, err |-> WriteErr]
    ELSE IF res.err # NilErr THEN [pages |-> <<>>, err |-> res.err]
    ELSE [pages |-> <<res.text>>, err |-> NilErr]

\* Variant: a page's OCR error is returned as the document's error.
ExtractOCRFromPDFPageStrict(converted, res) ==
    IF ~converted THEN [pages |-> <<>>, err |-> ConvertErr]
    ELSE IF res.err # NilErr THEN [pages |-> <<>>, err |-> res.err]
    ELSE [pages |-> <<res.text>>, err |-> NilErr]

\* extractOCRFromPDF, lines 581-659, for a document of one page: converted,
\* pdftoppm produced the page image; res, what processOCR returned for it.
ExtractOCRFromPDFPage(converted, res) ==
    IF ~converted THEN [pages |-> <<>>, err |-> ConvertErr]
    ELSE [pages |-> <<PageText(res)>>, err |-> NilErr]

\* A synchronous request before its extraction.
NoOut ==
    [kind |-> "none", ran |-> FALSE, ocr |-> PerformOCRDirect(<<0, 0>>, TRUE),
     pages |-> <<>>, err |-> NilErr]

\* The job map with no entry, over all the ids there can be.
jobs0 == [id \in FullIds |-> NoJob]

\* ------------------------------------------------------------------- Init

NoReq == [pc |-> "idle", n |-> 0, pages |-> <<>>, err |-> NilErr]

\* No extractOCRFromPDF call is at its dispatch loop.
NoPart == [pc |-> "idle", n |-> 0, w |-> 0, batchSize |-> 0, i |-> 0, ranges |-> <<>>]

\* No chunkTextByPages call.
NoChunking ==
    [pc |-> "idle", text |-> <<>>, totalPages |-> 0, pagesPerChunk |-> 0,
     chunkSize |-> 0, i |-> 0, ranges |-> <<>>]

\* A first request that has not arrived.
NoStart == [pc |-> "idle", kind |-> "none", workers |-> 0, i |-> 0]

InitOutsideQueueAndEnv ==
    /\ poolWorkers = 0
    /\ jobQueue = <<>>
    /\ executing = {}
    /\ req = [r \in Requests |-> NoReq]
    /\ tasks = [r \in Requests |-> <<>>]
    /\ resultChan = [r \in Requests |-> <<>>]
    /\ wg = [r \in Requests |-> 0]
    /\ ocrOutcome = [r \in Requests |-> <<>>]
    /\ arrival = [r \in Requests |-> <<>>]
    /\ circuitState = Closed
    /\ failures = 0
    /\ lastFailureTime = ZeroTime
    /\ now = 0
    /\ hpc = [h \in Handlers |-> "idle"]
    /\ streak = 0
    /\ cleanSuccess = {}
    /\ sinceSuccess = 0
    /\ trippedAt = ZeroTime
    /\ trialsThisWindow = 0
    /\ lvl = [c \in SummaryCalls |-> NoCall]
    /\ currentJobs = 0
    /\ cpuLoadHigh = FALSE
    /\ lastCPUCheck = ZeroTime
    /\ lpc = [h \in Handlers |-> "idle"]
    /\ ltime = [h \in Handlers |-> 0]
    /\ gpc = [h \in Handlers |-> "idle"]
    /\ gates = [h \in Handlers |-> <<>>]
    /\ touched = [h \in Handlers |-> {}]
    /\ gout = [h \in Handlers |-> NoOut]
    /\ part = NoPart
    /\ ocrPool = 0
    /\ poolsMade = 0
    /\ poolLoops = [k \in Pools |-> 0]
    /\ st = [s \in Starters |-> NoStart]
    /\ ck = NoChunking

\* The process was started without OCR_WORKERS.
InitOutsideQueue ==
    /\ InitOutsideQueueAndEnv
    /\ ocrWorkersEnv = 0

\* var globalJobQueue *OCRJobQueue: nil, and no request yet.
NoJobQueue ==
    /\ globalJobQueue = 0
    /\ queuesMade = 0
    /\ queueWorkers = [k \in Queues |-> 0]
    /\ jobs = [id \in JobIds |-> NoJob]
    /\ pending = [k \in Queues |-> <<>>]
    /\ nextId = 1
    /\ processing = {}
    /\ cl = [c \in Clients |-> NoClient]
    /\ lastPoll = NoPoll

Init ==
    /\ InitOutsideQueue
    /\ NoJobQueue

\* The process was started with any value of OCR_WORKERS.
InitStart ==
    /\ InitOutsideQueueAndEnv
    /\ ocrWorkersEnv \in 0..MaxEnvValue
    /\ NoJobQueue

\* A later state of the process: the queue was created by an earlier request,
\* its worker loops are both inside performOCRJob, and the pending channel
\* holds as many accepted ids as it has room for.
InitFull ==
    /\ InitOutsideQueue
    /\ globalJobQueue = 1
    /\ queuesMade = 1
    /\ queueWorkers = [k \in Queues |-> IF k = 1 THEN DefaultQueueWorkers ELSE 0]
    /\ jobs = [id \in FullIds |->
                 IF id \in 1..DefaultQueueWorkers THEN MarkProcessing(PutJob(jobs0, id, 1)[id])
                 ELSE IF id \in Backlog THEN PutJob(jobs0, id, 1)[id]
                 ELSE NoJob]
    /\ pending = [k \in Queues |->
                    IF k = 1 THEN [i \in 1..PendingCap |-> DefaultQueueWorkers + i]
                    ELSE <<>>]
    /\ nextId = DefaultQueueWorkers + PendingCap + 1
    /\ processing = {[id |-> id, q |-> 1, pc |-> "run"] : id \in 1..DefaultQueueWorkers}
    /\ cl = [c \in Clients |-> NoClient]
    /\ lastPoll = NoPoll

\* ---------------------------------------------------------------- actions

\* initOCRPool (lines 415-439): v is the OCR_WORKERS value (2 when unset).
InitOCRPool(v) ==
    /\ poolWorkers = 0
    /\ poolWorkers' = Min(v, MaxPoolWorkers)
    /\ jobQueue' = <<>>
    /\ executing' = {}
    /\ UNCHANGED <<req, tasks, resultChan, wg, ocrOutcome, arrival, otherThanPool>>

QueueCap == poolWorkers * QueueFactor

UnitsAdmitted == LET RECURSIVE Sum(_)
                     Sum(r) == IF r = 0 THEN 0 ELSE req[r].n + Sum(r - 1)
                 IN  Sum(MaxUnits)

\* extractOCRFromPDF up to wg.Wait (lines 581-648): the conversion produced
\* n >= 1 page images; the sub-range goroutines are spawned.
StartBatch(r, n) ==
    /\ poolWorkers > 0
    /\ req[r].pc = "idle"
    /\ \A q \in 1..(r - 1) : req[q].pc # "idle"
    /\ UnitsAdmitted + n <= MaxUnits
    /\ LET ranges == SubRanges(n, BatchSize(n, poolWorkers))
       IN  /\ tasks' = [tasks EXCEPT ![r] = [k \in DOMAIN ranges |-> NewTask(ranges[k])]]
           /\ wg' = [wg EXCEPT ![r] = Len(ranges)]
    /\ req' = [req EXCEPT ![r] = [pc |-> "running", n |-> n, pages |-> <<>>, err |-> NilErr]]
    /\ resultChan' = [resultChan EXCEPT ![r] = <<>>]
    /\ ocrOutcome' = [ocrOutcome EXCEPT ![r] = [i \in 1..n |-> NotRun]]
    /\ arrival' = [arrival EXCEPT ![r] = <<>>]
    /\ UNCHANGED <<poolWorkers, jobQueue, executing, otherThanPool>>

\* The OCRJob processOCR builds for task t of request r (lines 449-454).
JobOf(r, t) == [imagePath |-> <<r, tasks[r][t].idx>>, result |-> <<r, t>>]

\* Variant: a plain blocking send, without the default branch.
ProcessOCRBlocking(r, t) ==
    /\ req[r].pc = "running"
    /\ t \in DOMAIN tasks[r]
    /\ tasks[r][t].pc = "submit"
    /\ Len(jobQueue) < QueueCap
    /\ jobQueue' = Append(jobQueue, JobOf(r, t))
    /\ tasks' = [tasks EXCEPT ![r][t].pc = "wait"]
    /\ UNCHANGED <<poolWorkers, executing, req, resultChan, wg, ocrOutcome, arrival, otherThanPool>>

\* Variant: the unit is handed to the pool and run by the caller as well.
ProcessOCRAndDirect(r, t) ==
    /\ req[r].pc = "running"
    /\ t \in DOMAIN tasks[r]
    /\ tasks[r][t].pc = "submit"
    /\ jobQueue' = IF Len(jobQueue) < QueueCap THEN Append(jobQueue, JobOf(r, t))
                   ELSE jobQueue
    /\ tasks' = [tasks EXCEPT ![r][t].pc = "direct"]
    /\ UNCHANGED <<poolWorkers, executing, req, resultChan, wg, ocrOutcome, arrival, otherThanPool>>

\* processOCR's select (lines 456-463): a non-blocking send on the pool queue,
\* and the fallback to direct execution when the queue is full.
ProcessOCR(r, t) ==
    /\ req[r].pc = "running"
    /\ t \in DOMAIN tasks[r]
    /\ tasks[r][t].pc = "submit"
    /\ IF Len(jobQueue) < QueueCap
       THEN /\ jobQueue' = Append(jobQueue, JobOf(r, t))
            /\ tasks' = [tasks EXCEPT ![r][t].pc = "wait"]
       ELSE /\ tasks' = [tasks EXCEPT ![r][t].pc = "direct"]
            /\ UNCHANGED jobQueue
    /\ UNCHANGED <<poolWorkers, executing, req, resultChan, wg, ocrOutcome, arrival, otherThanPool>>

\* worker (line 442): a free worker loop receives the next job.
WorkerDequeue ==
    /\ jobQueue # <<>>
    /\ Cardinality(executing) < poolWorkers
    /\ executing' = executing \cup {Head(jobQueue)}
    /\ jobQueue' = Tail(jobQueue)
    /\ UNCHANGED <<poolWorkers, req, tasks, resultChan, wg, ocrOutcome, arrival, otherThanPool>>

\* Variant: one result channel per request, the one of its first task.
ResultTargetShared(job) == <<job.result[1], 1>>

\* The channel a worker sends job's result on (job.result).
ResultTarget(job) == job.result

\* worker (lines 443-444): performOCRDirect returns and the result is sent on
\* the job's own result channel (capacity 1).
WorkerFinish(job, ok) ==
    /\ job \in executing
    /\ LET c == ResultTarget(job)
       IN  /\ Len(tasks[c[1]][c[2]].result) < 1
           /\ tasks' = [tasks EXCEPT ![c[1]][c[2]].result =
                            Append(@, PerformOCRDirect(job.imagePath, ok))]
    /\ executing' = executing \ {job}
    /\ ocrOutcome' = [ocrOutcome EXCEPT ![job.imagePath[1]][job.imagePath[2]] =
                        Ran(ok, "pool")]
    /\ UNCHANGED <<poolWorkers, jobQueue, req, resultChan, wg, arrival, otherThanPool>>

\* Variant: an unbuffered result channel.
ResultChanUnbuffered(n) == 0

\* Line 617: make(chan pageResult, len(imageFiles)).
ResultChanCap(n) == n

\* Lines 642-646 and the loop step: the page result is sent on resultChan
\* (capacity n) and the goroutine moves on, or ends with wg.Done.
AfterOCR(r, t, res) ==
    LET tk == tasks[r][t]
        last == tk.idx + 1 = tk.stop
    IN  /\ Len(resultChan[r]) < ResultChanCap(req[r].n)
        /\ resultChan' = [resultChan EXCEPT ![r] =
                Append(@, [index |-> tk.idx, text |-> PageText(res), err |-> res.err])]
        /\ tasks' = [tasks EXCEPT ![r][t] =
                [tk EXCEPT !.idx = tk.idx + 1,
                           !.pc = IF last THEN "done" ELSE "submit",
                           !.result = <<>>]]
        /\ wg' = [wg EXCEPT ![r] = IF last THEN @ - 1 ELSE @]
        /\ arrival' = [arrival EXCEPT ![r] = Append(@, tk.idx)]

\* processOCR line 458: the caller receives its unit's result.
TaskReceive(r, t) ==
    /\ req[r].pc = "running"
    /\ t \in DOMAIN tasks[r]
    /\ tasks[r][t].pc = "wait"
    /\ tasks[r][t].result # <<>>
    /\ AfterOCR(r, t, Head(tasks[r][t].result))
    /\ UNCHANGED <<poolWorkers, jobQueue, executing, req, ocrOutcome, otherThanPool>>

\* processOCR line 462: the direct execution returns.
TaskDirectDone(r, t, ok) ==
    /\ req[r].pc = "running"
    /\ t \in DOMAIN tasks[r]
    /\ tasks[r][t].pc = "direct"
    /\ AfterOCR(r, t, PerformOCRDirect(<<r, tasks[r][t].idx>>, ok))
    /\ ocrOutcome' = [ocrOutcome EXCEPT ![r][tasks[r][t].idx] = Ran(ok, "direct")]
    /\ UNCHANGED <<poolWorkers, jobQueue, executing, req, otherThanPool>>

\* Variant: no barrier, the caller goes on at once.
WaitSkipped(r) == TRUE

\* wg.Wait's condition (line 650).
WaitDone(r) == wg[r] = 0

\* Lines 650-659: wg.Wait returns, the channel is closed and drained into
\* pages, and extractOCRFromPDF returns (pages, nil).
ReturnBatch(r) ==
    /\ req[r].pc = "running"
    /\ WaitDone(r)
    /\ req' = [req EXCEPT ![r].pc = "returned",
                          ![r].pages = Collect(resultChan[r], EmptyPages(req[r].n)),
                          ![r].err = NilErr]
    /\ resultChan' = [resultChan EXCEPT ![r] = <<>>]
    /\ UNCHANGED <<poolWorkers, jobQueue, executing, tasks, wg, ocrOutcome, arrival, otherThanPool>>

NextPool ==
    \/ \E v \in 1..MaxEnvWorkers : InitOCRPool(v)
    \/ \E r \in Requests, n \in 1..MaxUnits : StartBatch(r, n)
    \/ \E r \in Requests, t \in 1..MaxUnits : ProcessOCR(r, t)
    \/ WorkerDequeue
    \/ \E job \in executing, ok \in BOOLEAN : WorkerFinish(job, ok)
    \/ \E r \in Requests, t \in 1..MaxUnits : TaskReceive(r, t)
    \/ \E r \in Requests, t \in 1..MaxUnits, ok \in BOOLEAN : TaskDirectDone(r, t, ok)
    \/ \E r \in Requests : ReturnBatch(r)

SpecPool == Init /\ [][NextPool]_vars

\* Scheduling: the Go scheduler runs every runnable goroutine eventually, and
\* every unit execution is assumed to terminate.  Requests (StartBatch) need
\* not arrive.
FairnessPool ==
    /\ WF_vars(WorkerDequeue)
    /\ WF_vars(\E job \in executing, ok \in BOOLEAN : WorkerFinish(job, ok))
    /\ \A r \in Requests :
          /\ WF_vars(ReturnBatch(r))
          /\ \A t \in 1..MaxUnits :
                /\ WF_vars(ProcessOCR(r, t))
                /\ WF_vars(TaskReceive(r, t))
                /\ WF_vars(\E ok \in BOOLEAN : TaskDirectDone(r, t, ok))

FairSpecPool == SpecPool /\ FairnessPool

\* --------------------------------------------------------- circuit breaker
\* isCircuitOpen, recordFailure and recordSuccess run in the request
\* handlers' goroutines without a lock: each access to circuitState, failures
\* and lastFailureTime is a step of its own.

\* Handlers inside recordFailure, and inside recordSuccess.
InRecordFailure == {h \in Handlers : hpc[h] \in {"fail_time", "fail_load", "fail_open", "fail_reset"}}
InRecordSuccess == {h \in Handlers : hpc[h] = "succ_reset"}

\* Variant: the window counts as elapsed at exactly ten seconds.
WindowElapsedInclusive(t) == t - lastFailureTime >= RecoveryWindow

\* isCircuitOpen, line 384: time.Since(lastFailureTime) > 10*time.Second.
WindowElapsed(t) == t - lastFailureTime > RecoveryWindow

\* What an isCircuitOpen call returns when it runs alone from the current
\* state (lines 379-393).
IsCircuitOpenResult ==
    IF circuitState = Open THEN ~WindowElapsed(now) ELSE FALSE

\* Variant: the swap adds the difference of the two values to the state.
CompareAndSwapBlind(cur, old, new) == cur + (new - old)

\* atomic.CompareAndSwapInt32(&circuitState, old, new): the value afterwards.
CompareAndSwap(cur, old, new) == IF cur = old THEN new ELSE cur

\* Variant: the circuit opens only when the count exceeds three.
TripsAtAbove(n) == n > FailureThreshold

\* recordFailure's test, line 402.
TripsAt(n) == n >= FailureThreshold

\* Variant: recordSuccess leaves the counter as it is.
KeptBySuccess(n) == n

\* recordSuccess, line 411: atomic.StoreInt64(&failures, 0).
StoredBySuccess(n) == 0

\* History: a recordFailure streak that something else has interfered with.
Broken == FailureThreshold + 1

\* handleExtractOCR line 471 calls isCircuitOpen; line 379 loads the state.
\* HalfOpen and Closed return false at once (lines 389-392).
IsCircuitOpenLoad(h) ==
    /\ hpc[h] = "idle"
    /\ hpc' = [hpc EXCEPT ![h] = IF circuitState = Open THEN "open_since" ELSE "admitted"]
    /\ trialsThisWindow' =
          IF circuitState = HalfOpen THEN Min(trialsThisWindow + 1, 2) ELSE trialsThisWindow
    /\ UNCHANGED <<circuitState, failures, lastFailureTime, now, streak, cleanSuccess, sinceSuccess,
                   trippedAt, otherThanBreaker>>

\* isCircuitOpen, line 384 (and line 388, "return true"; the request is
\* then refused with a 503, lines 472-476).
IsCircuitOpenSince(h) ==
    /\ hpc[h] = "open_since"
    /\ hpc' = [hpc EXCEPT ![h] = IF WindowElapsed(now) THEN "open_cas" ELSE "rejected"]
    /\ UNCHANGED <<circuitState, failures, lastFailureTime, now, streak, cleanSuccess, sinceSuccess,
                   trippedAt, trialsThisWindow, otherThanBreaker>>

\* isCircuitOpen, lines 385-386: the swap, and "return false" whatever the
\* swap did.
IsCircuitOpenSwap(h) ==
    /\ hpc[h] = "open_cas"
    /\ circuitState' = CompareAndSwap(circuitState, Open, HalfOpen)
    /\ hpc' = [hpc EXCEPT ![h] = "admitted"]
    /\ trialsThisWindow' = Min(trialsThisWindow + 1, 2)
    /\ streak' = IF circuitState' # circuitState THEN Broken ELSE streak
    /\ UNCHANGED <<failures, lastFailureTime, now, cleanSuccess, sinceSuccess, trippedAt, otherThanBreaker>>

\* The refused request has been answered.
Leave(h) ==
    /\ hpc[h] = "rejected"
    /\ hpc' = [hpc EXCEPT ![h] = "idle"]
    /\ UNCHANGED <<circuitState, failures, lastFailureTime, now, streak, cleanSuccess, sinceSuccess,
                   trippedAt, trialsThisWindow, otherThanBreaker>>

\* recordFailure, called when the extraction fails (line 551); line 398.
RecordFailureAdd(h) ==
    /\ hpc[h] = "admitted"
    /\ failures' = failures + 1
    /\ hpc' = [hpc EXCEPT ![h] = "fail_time"]
    /\ streak' = IF InRecordSuccess # {} THEN Broken ELSE streak
    /\ cleanSuccess' = {}
    /\ sinceSuccess' = Min(sinceSuccess + 1, FailureThreshold)
    /\ UNCHANGED <<circuitState, lastFailureTime, now, trippedAt, trialsThisWindow,
                   otherThanBreaker>>

\* Variant: the timestamp is left alone while the breaker is Open, so the
\* window runs from the trip.
RecordFailureTimeUnlessOpen(h) ==
    /\ hpc[h] = "fail_time"
    /\ lastFailureTime' = IF circuitState = Open THEN lastFailureTime ELSE now
    /\ hpc' = [hpc EXCEPT ![h] = "fail_load"]
    /\ trialsThisWindow' = 0
    /\ UNCHANGED <<circuitState, failures, now, streak, cleanSuccess, sinceSuccess, trippedAt,
                   otherThanBreaker>>

\* recordFailure, line 399.
RecordFailureTime(h) ==
    /\ hpc[h] = "fail_time"
    /\ lastFailureTime' = now
    /\ hpc' = [hpc EXCEPT ![h] = "fail_load"]
    /\ trialsThisWindow' = 0
    /\ UNCHANGED <<circuitState, failures, now, streak, cleanSuccess, sinceSuccess, trippedAt,
                   otherThanBreaker>>

\* recordFailure, line 402; below the threshold the call returns.
RecordFailureLoad(h) ==
    /\ hpc[h] = "fail_load"
    /\ hpc' = [hpc EXCEPT ![h] = IF TripsAt(failures) THEN "fail_open" ELSE "idle"]
    /\ streak' = IF TripsAt(failures) THEN streak ELSE Min(streak + 1, Broken)
    /\ UNCHANGED <<circuitState, failures, lastFailureTime, now, cleanSuccess, sinceSuccess, trippedAt,
                   trialsThisWindow, otherThanBreaker>>

\* recordFailure, line 403.
RecordFailureOpen(h) ==
    /\ hpc[h] = "fail_open"
    /\ circuitState' = Open
    /\ hpc' = [hpc EXCEPT ![h] = "fail_reset"]
    /\ trippedAt' = now
    /\ UNCHANGED <<failures, lastFailureTime, now, streak, cleanSuccess, sinceSuccess, trialsThisWindow,
                   otherThanBreaker>>

\* recordFailure, line 404.
RecordFailureReset(h) ==
    /\ hpc[h] = "fail_reset"
    /\ failures' = 0
    /\ hpc' = [hpc EXCEPT ![h] = "idle"]
    /\ streak' = Min(streak + 1, Broken)
    /\ UNCHANGED <<circuitState, lastFailureTime, now, cleanSuccess, sinceSuccess, trippedAt,
                   trialsThisWindow, otherThanBreaker>>

\* recordSuccess, called when the extraction succeeds (line 568); line 410.
RecordSuccessClosed(h) ==
    /\ hpc[h] = "admitted"
    /\ circuitState' = Closed
    /\ hpc' = [hpc EXCEPT ![h] = "succ_reset"]
    /\ streak' = Broken
    /\ cleanSuccess' = IF InRecordFailure = {} THEN cleanSuccess \cup {h} ELSE cleanSuccess
    /\ UNCHANGED <<failures, sinceSuccess, lastFailureTime, now, trippedAt, trialsThisWindow,
                   otherThanBreaker>>

\* recordSuccess, line 411.
RecordSuccessReset(h) ==
    /\ hpc[h] = "succ_reset"
    /\ failures' = StoredBySuccess(failures)
    /\ hpc' = [hpc EXCEPT ![h] = "idle"]
    /\ streak' = IF h \in cleanSuccess THEN 0 ELSE streak
    /\ cleanSuccess' = cleanSuccess \ {h}
    /\ sinceSuccess' = 0
    /\ UNCHANGED <<circuitState, lastFailureTime, now, trippedAt, trialsThisWindow,
                   otherThanBreaker>>

\* The request ends on a path that records nothing: refused by the load check
\* (lines 480-486) or a validation error (lines 498-547).
FinishNeither(h) ==
    /\ hpc[h] = "admitted"
    /\ hpc' = [hpc EXCEPT ![h] = "idle"]
    /\ UNCHANGED <<circuitState, failures, lastFailureTime, now, streak, cleanSuccess, sinceSuccess,
                   trippedAt, trialsThisWindow, otherThanBreaker>>

\* Time passes.
Tick(d) ==
    /\ now + d <= MaxTime
    /\ now' = now + d
    /\ UNCHANGED <<circuitState, failures, lastFailureTime, hpc, streak, cleanSuccess, sinceSuccess,
                   trippedAt, trialsThisWindow, otherThanBreaker>>

NextBreaker ==
    \/ \E h \in Handlers : IsCircuitOpenLoad(h)
    \/ \E h \in Handlers : IsCircuitOpenSince(h)
    \/ \E h \in Handlers : IsCircuitOpenSwap(h)
    \/ \E h \in Handlers : Leave(h)
    \/ \E h \in Handlers : RecordFailureAdd(h)
    \/ \E h \in Handlers : RecordFailureTime(h)
    \/ \E h \in Handlers : RecordFailureLoad(h)
    \/ \E h \in Handlers : RecordFailureOpen(h)
    \/ \E h \in Handlers : RecordFailureReset(h)
    \/ \E h \in Handlers : RecordSuccessClosed(h)
    \/ \E h \in Handlers : RecordSuccessReset(h)
    \/ \E h \in Handlers : FinishNeither(h)
    \/ \E d \in TickSteps : Tick(d)

SpecBreaker == Init /\ [][NextBreaker]_vars

\* -------------------------------------------------- level summary requests

\* generateLevelSummary, src/summary.go lines 208-214: the text is split
\* into n >= 1 chunks.
StartLevelSummary(c, n) ==
    /\ lvl[c].pc = "idle"
    /\ lvl' = [lvl EXCEPT ![c] = [NoCall EXCEPT !.pc = "loop", !.n = n, !.i = 1]]
    /\ UNCHANGED otherThanSummary

\* One turn of the loop of src/summary.go lines 216-225: generateChunkSummary
\* for chunk i returns a summary (ok) or an error.
ChunkStep(c, ok) ==
    /\ lvl[c].pc = "loop"
    /\ lvl' = [lvl EXCEPT ![c] = IF ok THEN ChunkDone(lvl[c]) ELSE ChunkFailed(lvl[c])]
    /\ UNCHANGED otherThanSummary

\* src/summary.go lines 232-238: the combine step.
CombineStep(c, ok) ==
    /\ lvl[c].pc = "combine"
    /\ lvl' = [lvl EXCEPT ![c] =
                 [@ EXCEPT !.pc = "returned",
                           !.combined = TRUE,
                           !.summary = IF ok THEN FinalSummaryOf(Len(lvl[c].summaries)) ELSE NoSummary,
                           !.err = IF ok THEN NoErr ELSE FinalErr]]
    /\ UNCHANGED otherThanSummary

\* handleLevelSummary, src/handlers.go lines 570-588: a 500 with the error
\* and no summary, or a 200 with the summary.
Respond(c) ==
    /\ lvl[c].pc = "returned"
    /\ lvl' = [lvl EXCEPT ![c] =
                 [@ EXCEPT !.pc = "responded",
                           !.status = IF lvl[c].err # NoErr THEN 500 ELSE 200]]
    /\ UNCHANGED otherThanSummary

NextSummary ==
    \/ \E c \in SummaryCalls, n \in 1..MaxChunks : StartLevelSummary(c, n)
    \/ \E c \in SummaryCalls, ok \in BOOLEAN : ChunkStep(c, ok)
    \/ \E c \in SummaryCalls, ok \in BOOLEAN : CombineStep(c, ok)
    \/ \E c \in SummaryCalls : Respond(c)

SpecSummary == Init /\ [][NextSummary]_vars

\* ------------------------------------------------------ admission control
\* checkSystemLoad runs in the request handlers' goroutines without a lock:
\* each access to lastCPUCheck, cpuLoadHigh and currentJobs is a step of its
\* own.  A request that has passed the check counts itself in currentJobs
\* and runs on; only the count of the requests in flight is kept.

\* checkSystemLoad, line 352: now.Sub(lastCPUCheck) < 2*time.Second.
SampleFresh(t) == t - lastCPUCheck < SamplePeriod

\* checkSystemLoad, line 360: current >= maxConcurrentJobs.
OverCeiling(n) == n >= MaxConcurrentJobs

\* handleExtractOCR line 480 calls checkSystemLoad; lines 351-352 read the
\* clock and compare it with lastCPUCheck.
CheckSince(h) ==
    /\ lpc[h] = "idle"
    /\ ltime' = [ltime EXCEPT ![h] = IF SampleFresh(now) THEN 0 ELSE now]
    /\ lpc' = [lpc EXCEPT ![h] = IF SampleFresh(now) THEN "load_cached" ELSE "load_stamp"]
    /\ UNCHANGED <<currentJobs, cpuLoadHigh, lastCPUCheck, now, otherThanLoad>>

\* checkSystemLoad, line 353: "return !cpuLoadHigh".
CheckCached(h) ==
    /\ lpc[h] = "load_cached"
    /\ lpc' = [lpc EXCEPT ![h] = IF cpuLoadHigh THEN "refused" ELSE "count"]
    /\ UNCHANGED <<currentJobs, cpuLoadHigh, lastCPUCheck, ltime, now, otherThanLoad>>

\* checkSystemLoad, line 356: "lastCPUCheck = now".
CheckStamp(h) ==
    /\ lpc[h] = "load_stamp"
    /\ lastCPUCheck' = ltime[h]
    /\ ltime' = [ltime EXCEPT ![h] = 0]
    /\ lpc' = [lpc EXCEPT ![h] = "load_jobs"]
    /\ UNCHANGED <<currentJobs, cpuLoadHigh, now, otherThanLoad>>

\* checkSystemLoad, lines 359-360: the counter is loaded and compared.
CheckJobs(h) ==
    /\ lpc[h] = "load_jobs"
    /\ lpc' = [lpc EXCEPT ![h] = IF OverCeiling(currentJobs) THEN "load_high" ELSE "load_mem"]
    /\ UNCHANGED <<currentJobs, cpuLoadHigh, lastCPUCheck, ltime, now, otherThanLoad>>

\* checkSystemLoad, lines 361-362: "cpuLoadHigh = true; return false".
CheckHigh(h) ==
    /\ lpc[h] = "load_high"
    /\ cpuLoadHigh' = TRUE
    /\ lpc' = [lpc EXCEPT ![h] = "refused"]
    /\ UNCHANGED <<currentJobs, lastCPUCheck, ltime, now, otherThanLoad>>

\* checkSystemLoad, lines 366-374: runtime.ReadMemStats reports more than
\* 6GB allocated (high) or not; the verdict is stored and returned.
CheckMemory(h, high) ==
    /\ lpc[h] = "load_mem"
    /\ cpuLoadHigh' = high
    /\ lpc' = [lpc EXCEPT ![h] = IF high THEN "refused" ELSE "count"]
    /\ UNCHANGED <<currentJobs, lastCPUCheck, ltime, now, otherThanLoad>>

\* handleExtractOCR, lines 481-485: the 429 response.
LoadRefused(h) ==
    /\ lpc[h] = "refused"
    /\ lpc' = [lpc EXCEPT ![h] = "idle"]
    /\ UNCHANGED <<currentJobs, cpuLoadHigh, lastCPUCheck, ltime, now, otherThanLoad>>

\* handleExtractOCR, line 489: atomic.AddInt64(&currentJobs, 1).  The
\* request runs on as one of the currentJobs requests in flight.
CountJob(h) ==
    /\ lpc[h] = "count"
    /\ currentJobs < MaxRunning
    /\ currentJobs' = currentJobs + 1
    /\ lpc' = [lpc EXCEPT ![h] = "idle"]
    /\ UNCHANGED <<cpuLoadHigh, lastCPUCheck, ltime, now, otherThanLoad>>

\* handleExtractOCR, line 490: the deferred atomic.AddInt64(&currentJobs, -1)
\* of a request in flight that returns.
JobEnds ==
    /\ currentJobs > 0
    /\ currentJobs' = currentJobs - 1
    /\ UNCHANGED <<cpuLoadHigh, lastCPUCheck, lpc, ltime, now, otherThanLoad>>

\* Time passes.
LoadTick(d) ==
    /\ now + d <= MaxLoadTime
    /\ now' = now + d
    /\ UNCHANGED <<loadVars, otherThanLoad>>

NextLoad ==
    \/ \E h \in Handlers : CheckSince(h)
    \/ \E h \in Handlers : CheckCached(h)
    \/ \E h \in Handlers : CheckStamp(h)
    \/ \E h \in Handlers : CheckJobs(h)
    \/ \E h \in Handlers : CheckHigh(h)
    \/ \E h \in Handlers, high \in BOOLEAN : CheckMemory(h, high)
    \/ \E h \in Handlers : LoadRefused(h)
    \/ \E h \in Handlers : CountJob(h)
    \/ JobEnds
    \/ \E d \in LoadTickSteps : LoadTick(d)

SpecLoad == Init /\ [][NextLoad]_vars

\* ---------------------------------------------------------------- job queue
\* The sections of submitJob, processJob and getJobStatus that hold q.mu or
\* job.mu are one step each; the fields of a job set at its creation are not
\* written again.  globalJobQueue is a plain variable: every read and write
\* of it is a step of its own.

\* handleExtractOCRAsync, line 263: globalJobQueue == nil?
AsyncCheckQueue(c) ==
    /\ cl[c].pc = "idle"
    /\ cl' = [cl EXCEPT ![c].pc = IF globalJobQueue = 0 THEN "init" ELSE "submit"]
    /\ UNCHANGED <<globalJobQueue, queuesMade, queueWorkers, jobs,
                   pending, nextId, processing, lastPoll, otherThanJobs>>

\* initJobQueue, lines 89-102: a new queue becomes the global one.
InitJobQueueAssign(c) ==
    /\ cl[c].pc = "init"
    /\ queuesMade' = queuesMade + 1
    /\ globalJobQueue' = queuesMade + 1
    /\ cl' = [cl EXCEPT ![c].pc = "start", ![c].w = DefaultQueueWorkers]
    /\ UNCHANGED <<queueWorkers, jobs, pending, nextId, processing, lastPoll, otherThanJobs>>

\* initJobQueue, lines 104-106: one iteration, go globalJobQueue.worker(i),
\* on the queue the global names at that moment.
InitJobQueueStart(c) ==
    /\ cl[c].pc = "start"
    /\ queueWorkers' = [queueWorkers EXCEPT ![globalJobQueue] = @ + 1]
    /\ cl' = [cl EXCEPT ![c].w = @ - 1,
                        ![c].pc = IF cl[c].w = 1 THEN "submit" ELSE "start"]
    /\ UNCHANGED <<globalJobQueue, queuesMade, jobs, pending,
                   nextId, processing, lastPoll, otherThanJobs>>

\* handleExtractOCRAsync, lines 266-295, up to submitJob, lines 202-216, on
\* the queue the global names at line 295: a fresh id, and the job stored
\* under it.
AsyncSubmitInsert(c) ==
    /\ cl[c].pc = "submit"
    /\ jobs' = PutJob(jobs, nextId, globalJobQueue)
    /\ nextId' = nextId + 1
    /\ cl' = [cl EXCEPT ![c].pc = "inserted", ![c].job = nextId,
                        ![c].q = globalJobQueue]
    /\ UNCHANGED <<globalJobQueue, queuesMade, queueWorkers,
                   pending, processing, lastPoll, otherThanJobs>>

\* submitJob, lines 219-228: the non-blocking send of the id; with the
\* channel full the job is deleted and "" returned (429, lines 296-301).
AsyncSubmitSend(c) ==
    /\ cl[c].pc = "inserted"
    /\ IF Len(pending[cl[c].q]) < PendingCap
       THEN /\ pending' = [pending EXCEPT ![cl[c].q] = Append(@, cl[c].job)]
            /\ cl' = [cl EXCEPT ![c].pc = "accepted", ![c].id = cl[c].job]
            /\ UNCHANGED jobs
       ELSE /\ jobs' = DeleteJob(jobs, cl[c].job)
            /\ cl' = [cl EXCEPT ![c].pc = "rejected"]
            /\ UNCHANGED pending
    /\ UNCHANGED <<globalJobQueue, queuesMade, queueWorkers,
                   nextId, processing, lastPoll, otherThanJobs>>

\* Variant: the id is read and left in the channel.
QueueWorkerPeek(k) ==
    /\ pending[k] # <<>>
    /\ Cardinality({w \in processing : w.q = k}) < queueWorkers[k]
    /\ processing' = processing \cup {[id |-> Head(pending[k]), q |-> k, pc |-> "lookup"]}
    /\ UNCHANGED <<globalJobQueue, queuesMade, queueWorkers, jobs, pending,
                   nextId, cl, lastPoll, otherThanJobs>>

\* OCRJobQueue.worker, line 111: a worker loop of queue k receives an id.
QueueWorkerReceive(k) ==
    /\ pending[k] # <<>>
    /\ Cardinality({w \in processing : w.q = k}) < queueWorkers[k]
    /\ pending' = [pending EXCEPT ![k] = Tail(@)]
    /\ processing' = processing \cup {[id |-> Head(pending[k]), q |-> k, pc |-> "lookup"]}
    /\ UNCHANGED <<globalJobQueue, queuesMade, queueWorkers, jobs,
                   nextId, cl, lastPoll, otherThanJobs>>

\* processJob, lines 118-124: the lookup; without an entry the call returns.
ProcessLookup(w) ==
    /\ w \in processing
    /\ w.pc = "lookup"
    /\ processing' = IF HasJob(jobs, w.id, w.q)
                      THEN (processing \ {w}) \cup {[w EXCEPT !.pc = "mark"]}
                      ELSE processing \ {w}
    /\ UNCHANGED <<globalJobQueue, queuesMade, queueWorkers, jobs,
                   pending, nextId, cl, lastPoll, otherThanJobs>>

\* processJob, lines 127-131.
ProcessStart(w) ==
    /\ w \in processing
    /\ w.pc = "mark"
    /\ jobs' = [jobs EXCEPT ![w.id] = MarkProcessing(@)]
    /\ processing' = (processing \ {w}) \cup {[w EXCEPT !.pc = "run"]}
    /\ UNCHANGED <<globalJobQueue, queuesMade, queueWorkers,
                   pending, nextId, cl, lastPoll, otherThanJobs>>

\* processJob, lines 134-145: performOCRJob returns (ok: with Success) and
\* the result is stored.
ProcessFinish(w, ok) ==
    /\ w \in processing
    /\ w.pc = "run"
    /\ jobs' = [jobs EXCEPT ![w.id] = FinishJob(@, OCRJobResult(ok))]
    /\ processing' = processing \ {w}
    /\ UNCHANGED <<globalJobQueue, queuesMade, queueWorkers,
                   pending, nextId, cl, lastPoll, otherThanJobs>>

\* Variant: job.mu is held from the start of processJob to its end.
HoldsJobLockThroughOCR(w) == w.pc = "run"

\* processJob holds job.mu in lines 127-131 and 137-145, each inside one
\* step, and not while performOCRJob runs (line 134): between steps no
\* call holds it.
HoldsJobLock(w) == FALSE

\* handleGetJobStatus (lines 312-328) for the id generated for the client's
\* submission, once submitJob has returned, on the queue the global names,
\* and getJobStatus (lines 233-257): the lookup under q.mu and the read under
\* job.mu (job.mu.RLock, line 246, waits while a writer holds job.mu).  No
\* entry is removed or added for an id after its submitJob has returned, so
\* the two sections are taken as one step.
GetJobStatus(c) ==
    /\ cl[c].pc \in {"accepted", "rejected"}
    /\ HasJob(jobs, cl[c].job, globalJobQueue) =>
           \A w \in processing : w.id = cl[c].job => ~HoldsJobLock(w)
    /\ lastPoll' = [id |-> cl[c].job, q |-> globalJobQueue,
                    resp |-> IF HasJob(jobs, cl[c].job, globalJobQueue)
                             THEN StatusResponse(jobs[cl[c].job])
                             ELSE NotFound]
    /\ UNCHANGED <<globalJobQueue, queuesMade, queueWorkers, jobs, pending,
                   nextId, processing, cl, otherThanJobs>>

NextJobs ==
    \/ \E c \in Clients : AsyncCheckQueue(c)
    \/ \E c \in Clients : InitJobQueueAssign(c)
    \/ \E c \in Clients : InitJobQueueStart(c)
    \/ \E c \in Clients : AsyncSubmitInsert(c)
    \/ \E c \in Clients : AsyncSubmitSend(c)
    \/ \E k \in Queues : QueueWorkerReceive(k)
    \/ \E w \in processing : ProcessLookup(w)
    \/ \E w \in processing : ProcessStart(w)
    \/ \E w \in processing, ok \in BOOLEAN : ProcessFinish(w, ok)
    \/ \E c \in Clients : GetJobStatus(c)

SpecJobs == Init /\ [][NextJobs]_vars

\* The ids the worker loops have received from the full channel.
FullDequeued ==
    PendingCap - Cardinality({i \in 1..Len(pending[1]) : pending[1][i] \in Backlog})

\* OCRJobQueue.worker, line 111, for a bounded number of ids.
FullReceive(k) ==
    /\ FullDequeued < MaxDequeues
    /\ QueueWorkerReceive(k)

\* Requests arriving at the full queue.
NextFull ==
    \/ \E c \in Clients : AsyncCheckQueue(c)
    \/ \E c \in Clients : AsyncSubmitInsert(c)
    \/ \E c \in Clients : AsyncSubmitSend(c)
    \/ \E k \in Queues : FullReceive(k)
    \/ \E w \in processing : ProcessLookup(w)
    \/ \E w \in processing : ProcessStart(w)
    \/ \E w \in processing, ok \in BOOLEAN : ProcessFinish(w, ok)
    \/ \E c \in Clients : GetJobStatus(c)

SpecFull == InitFull /\ [][NextFull]_vars

\* -------------------------------------------------------- request handlers
\* handleExtractOCR, one step per call it makes: isCircuitOpen,
\* checkSystemLoad, recordFailure and recordSuccess each as one call.

\* handleExtractOCR, lines 471-477: isCircuitOpen (lines 378-394); true is
\* answered with 503.
SyncBreakerGate(h) ==
    /\ gpc[h] = "idle"
    /\ circuitState' = IF circuitState = Open /\ WindowElapsed(now)
                       THEN CompareAndSwap(circuitState, Open, HalfOpen)
                       ELSE circuitState
    /\ gpc' = [gpc EXCEPT ![h] = IF IsCircuitOpenResult THEN "refused503" ELSE "passed"]
    /\ gates' = [gates EXCEPT ![h] = <<"breaker">>]
    /\ touched' = [touched EXCEPT ![h] =
                      IF circuitState' # circuitState THEN {"halfOpened"} ELSE {}]
    /\ UNCHANGED <<failures, lastFailureTime, now, currentJobs, cpuLoadHigh,
                   lastCPUCheck, gout, otherThanGate>>

\* handleExtractOCR, lines 480-486: checkSystemLoad (lines 350-375); false is
\* answered with 429.  high: the memory in use is above the limit.
SyncLoadGate(h, high) ==
    /\ gpc[h] = "passed"
    /\ IF SampleFresh(now)
       THEN /\ gpc' = [gpc EXCEPT ![h] = IF cpuLoadHigh THEN "refused429" ELSE "admitted"]
            /\ UNCHANGED <<lastCPUCheck, cpuLoadHigh>>
       ELSE /\ lastCPUCheck' = now
            /\ cpuLoadHigh' = (OverCeiling(currentJobs) \/ high)
            /\ gpc' = [gpc EXCEPT ![h] = IF cpuLoadHigh' THEN "refused429" ELSE "admitted"]
    /\ gates' = [gates EXCEPT ![h] = Append(@, "admission")]
    /\ UNCHANGED <<circuitState, failures, lastFailureTime, now, currentJobs,
                   touched, gout, otherThanGate>>

\* Variant: a refused request is recorded as a failure.
SyncRefusedRecording(h) ==
    /\ gpc[h] \in {"refused503", "refused429"}
    /\ failures' = failures + 1
    /\ gpc' = [gpc EXCEPT ![h] = "idle"]
    /\ gates' = [gates EXCEPT ![h] = <<>>]
    /\ touched' = [touched EXCEPT ![h] = {}]
    /\ UNCHANGED <<circuitState, lastFailureTime, now, currentJobs, cpuLoadHigh,
                   lastCPUCheck, gout, otherThanGate>>

\* handleExtractOCR, lines 472-476 and 481-485: the refusal is sent and the
\* handler returns.
SyncRefused(h) ==
    /\ gpc[h] \in {"refused503", "refused429"}
    /\ gpc' = [gpc EXCEPT ![h] = "idle"]
    /\ gates' = [gates EXCEPT ![h] = <<>>]
    /\ touched' = [touched EXCEPT ![h] = {}]
    /\ UNCHANGED <<circuitState, failures, lastFailureTime, now, currentJobs,
                   cpuLoadHigh, lastCPUCheck, gout, otherThanGate>>

\* handleExtractOCR, line 489: atomic.AddInt64(&currentJobs, 1).
SyncCount(h) ==
    /\ gpc[h] = "admitted"
    /\ currentJobs' = currentJobs + 1
    /\ gpc' = [gpc EXCEPT ![h] = "counted"]
    /\ touched' = [touched EXCEPT ![h] = @ \cup {"currentJobs"}]
    /\ UNCHANGED <<circuitState, failures, lastFailureTime, now, cpuLoadHigh,
                   lastCPUCheck, gates, gout, otherThanGate>>

\* handleExtractOCR, lines 493-548: the request is validated; a PDF or an
\* image goes on to its extraction function, the others are answered with
\* an error.
SyncValidate(h, kind) ==
    /\ gpc[h] = "counted"
    /\ gpc' = [gpc EXCEPT ![h] = IF kind = "invalid" THEN "ending" ELSE "running"]
    /\ touched' = [touched EXCEPT ![h] = IF kind = "invalid" THEN @ ELSE @ \cup {"units"}]
    /\ gout' = [gout EXCEPT ![h].kind = kind]
    /\ UNCHANGED <<circuitState, failures, lastFailureTime, now, currentJobs,
                   cpuLoadHigh, lastCPUCheck, gates, otherThanGate>>

\* handleExtractOCR, lines 536-577: the extraction function returns
\* (prepared: the step before the OCR succeeded; ocrOk: the OCR unit
\* succeeded); with an error recordFailure (lines 397-406) is called,
\* without one recordSuccess (lines 409-412).
SyncExtract(h, prepared, ocrOk) ==
    LET res == PerformOCRDirect(<<h, 1>>, ocrOk)
        out == IF gout[h].kind = "pdf" THEN ExtractOCRFromPDFPage(prepared, res)
                                       ELSE ExtractOCRFromImage(prepared, res)
    IN  /\ gpc[h] = "running"
        /\ gout' = [gout EXCEPT ![h] =
                       [kind |-> gout[h].kind, ran |-> prepared,
                        ocr |-> IF prepared THEN res ELSE NoOut.ocr,
                        pages |-> out.pages, err |-> out.err]]
        /\ IF out.err = NilErr
           THEN /\ circuitState' = Closed
                /\ failures' = StoredBySuccess(failures)
                /\ UNCHANGED lastFailureTime
           ELSE /\ lastFailureTime' = now
                /\ circuitState' = IF TripsAt(failures + 1) THEN Open ELSE circuitState
                /\ failures' = IF TripsAt(failures + 1) THEN 0 ELSE failures + 1
        /\ gpc' = [gpc EXCEPT ![h] = "ending"]
        /\ touched' = [touched EXCEPT ![h] =
                          @ \cup {IF out.err = NilErr THEN "recordSuccess" ELSE "recordFailure"}]
        /\ UNCHANGED <<now, currentJobs, cpuLoadHigh, lastCPUCheck, gates, otherThanGate>>

\* Variant: the counter is decremented at the end of the extraction only,
\* not on the early return of a validation error.
SyncEndAfterExtractionOnly(h) ==
    /\ gpc[h] = "ending"
    /\ currentJobs' = IF gout[h].kind = "invalid" THEN currentJobs ELSE currentJobs - 1
    /\ gpc' = [gpc EXCEPT ![h] = "idle"]
    /\ gates' = [gates EXCEPT ![h] = <<>>]
    /\ touched' = [touched EXCEPT ![h] = {}]
    /\ gout' = [gout EXCEPT ![h] = NoOut]
    /\ UNCHANGED <<circuitState, failures, lastFailureTime, now, cpuLoadHigh,
                   lastCPUCheck, otherThanGate>>

\* handleExtractOCR, line 490: the deferred atomic.AddInt64(&currentJobs, -1),
\* as the handler returns.
SyncEnd(h) ==
    /\ gpc[h] = "ending"
    /\ currentJobs' = currentJobs - 1
    /\ gpc' = [gpc EXCEPT ![h] = "idle"]
    /\ gates' = [gates EXCEPT ![h] = <<>>]
    /\ touched' = [touched EXCEPT ![h] = {}]
    /\ gout' = [gout EXCEPT ![h] = NoOut]
    /\ UNCHANGED <<circuitState, failures, lastFailureTime, now, cpuLoadHigh,
                   lastCPUCheck, otherThanGate>>

NextGate ==
    \/ \E h \in Handlers : SyncBreakerGate(h)
    \/ \E h \in Handlers, high \in BOOLEAN : SyncLoadGate(h, high)
    \/ \E h \in Handlers : SyncRefused(h)
    \/ \E h \in Handlers : SyncCount(h)
    \/ \E h \in Handlers, kind \in {"pdf", "image", "invalid"} : SyncValidate(h, kind)
    \/ \E h \in Handlers, prepared, ocrOk \in BOOLEAN : SyncExtract(h, prepared, ocrOk)
    \/ \E h \in Handlers : SyncEnd(h)
    \/ \E d \in TickSteps : Tick(d)

SpecGate == Init /\ [][NextGate]_vars

\* The asynchronous endpoint next to the synchronous one: the steps of
\* handleExtractOCRAsync up to the answer.
NextEntry ==
    \/ NextGate
    \/ \E c \in Clients : AsyncCheckQueue(c)
    \/ \E c \in Clients : InitJobQueueAssign(c)
    \/ \E c \in Clients : InitJobQueueStart(c)
    \/ \E c \in Clients : AsyncSubmitInsert(c)
    \/ \E c \in Clients : AsyncSubmitSend(c)

SpecEntry == Init /\ [][NextEntry]_vars

\* ------------------------------------------------------------- properties

Returned(r) == req[r].pc = "returned"
Running(r) == req[r].pc = "running"

\* The page the OCR outcome of image <<r, i>> stands for.
OutcomePage(r, i) ==
    IF ocrOutcome[r][i].res = "ok" THEN TextOf(<<r, i>>) ELSE ErrorMarker(ErrOf(<<r, i>>))

\* C1: batch ordering.  In the slice extractOCRFromPDF returns, entry i is
\* the OCR outcome (text or error marker) of image i, whatever the order in
\* which the sub-range tasks and the pool workers finished.
C1_BatchOrdering ==
    \A r \in Requests :
        Returned(r) =>
            /\ DOMAIN req[r].pages = 1..req[r].n
            /\ \A i \in 1..req[r].n :
                   /\ ocrOutcome[r][i].res # "none"
                   /\ req[r].pages[i].r = r
                   /\ req[r].pages[i].i = i
                   /\ req[r].pages[i] = OutcomePage(r, i)

\* C1 witness: a batch has returned whose results arrived out of input order.
C1_Witness ==
    \E r \in Requests :
        /\ Returned(r)
        /\ req[r].n >= 2
        /\ \E k \in 1..(Len(arrival[r]) - 1) : arrival[r][k] > arrival[r][k + 1]

\* C2: OCR batch error policy.  Whatever subset of the units fails, the call
\* returns a nil error and n entries; a failed unit's entry is the error
\* marker of that unit, every other entry is the unit's real text.
C2_OCRErrorPolicy ==
    \A r \in Requests :
        Returned(r) =>
            /\ req[r].err = NilErr
            /\ Len(req[r].pages) = req[r].n
            /\ \A i \in 1..req[r].n :
                   /\ ocrOutcome[r][i].res = "fail" =>
                          req[r].pages[i] = [kind |-> "marker", r |-> r, i |-> i]
                   /\ ocrOutcome[r][i].res = "ok" =>
                          req[r].pages[i] = [kind |-> "text", r |-> r, i |-> i]
                   /\ ocrOutcome[r][i].res \in {"ok", "fail"}

\* C2 witness: a returned batch in which one unit failed and another succeeded.
C2_Witness ==
    \E r \in Requests :
        /\ Returned(r)
        /\ \E i, j \in 1..req[r].n :
              /\ ocrOutcome[r][i].res = "fail"
              /\ ocrOutcome[r][j].res = "ok"
              /\ req[r].pages[i].kind = "marker"
              /\ req[r].pages[j].kind = "text"

\* The jobs of request r still held by the pool.
PoolJobsOf(r) ==
    {job \in executing : job.imagePath[1] = r}
      \cup {jobQueue[k] : k \in {k \in 1..Len(jobQueue) : jobQueue[k].imagePath[1] = r}}

\* C4: join/barrier.  Once extractOCRFromPDF has returned, every sub-range
\* task of the batch has finished and no unit of the batch is running or
\* queued, on a pool worker or on a task's own goroutine.
C4_Barrier ==
    \A r \in Requests :
        Returned(r) =>
            /\ \A t \in DOMAIN tasks[r] :
                   /\ tasks[r][t].pc = "done"
                   /\ tasks[r][t].idx = tasks[r][t].stop
            /\ PoolJobsOf(r) = {}
            /\ wg[r] = 0

\* C4 witness: a batch of several sub-range tasks has returned while another
\* request is still being processed.
C4_Witness ==
    \E r, q \in Requests :
        /\ Returned(r)
        /\ Len(tasks[r]) >= 2
        /\ Running(q)
        /\ PoolJobsOf(q) # {}


TaskAt(r, t, pcs) == t \in DOMAIN tasks[r] /\ tasks[r][t].pc \in pcs

\* C5: the pool submit never waits for queue space.  A task about to call
\* processOCR can always take its step; with the queue full the step runs the
\* unit on the caller (nothing is enqueued), otherwise it enqueues the job;
\* a caller that enqueued waits only for its own job, which is in the queue
\* or on a worker, until the result is delivered, and can then go on.
C5_NonBlockingSubmit ==
    /\ [](\A r \in Requests, t \in 1..MaxUnits :
            (Running(r) /\ TaskAt(r, t, {"submit"})) => ENABLED ProcessOCR(r, t))
    /\ [][\A r \in Requests, t \in 1..MaxUnits :
            (TaskAt(r, t, {"submit"}) /\ tasks'[r][t].pc # "submit") =>
                IF Len(jobQueue) >= QueueCap
                THEN tasks'[r][t].pc = "direct" /\ jobQueue' = jobQueue
                ELSE tasks'[r][t].pc = "wait" /\ jobQueue' = Append(jobQueue, JobOf(r, t))]_vars
    /\ [](\A r \in Requests, t \in 1..MaxUnits :
            TaskAt(r, t, {"wait"}) =>
                IF tasks[r][t].result = <<>>
                THEN JobOf(r, t) \in PoolJobsOf(r)
                ELSE JobOf(r, t) \notin PoolJobsOf(r) /\ ENABLED TaskReceive(r, t))
    /\ [](Len(jobQueue) <= QueueCap)

\* C5 witness: one caller runs its unit directly because the queue is full,
\* while another caller's job waits in the queue.
C5_Witness ==
    /\ Len(jobQueue) = QueueCap
    /\ \E r, q \in Requests, t, u \in 1..MaxUnits :
          /\ TaskAt(r, t, {"direct"})
          /\ TaskAt(q, u, {"wait"})
          /\ JobOf(q, u) = jobQueue[1]

\* No extractOCRFromPDF call and no processOCR call is in progress, and every
\* call made so far has returned with all its units run.
Quiescent ==
    \A r \in Requests :
        /\ ~Running(r)
        /\ Returned(r) =>
              /\ \A i \in 1..req[r].n : ocrOutcome[r][i].res # "none"
              /\ \A t \in DOMAIN tasks[r] : tasks[r][t].pc = "done"

SerializedBehind(r) ==
    \/ \E t \in DOMAIN tasks[r] : tasks[r][t].stop - tasks[r][t].start > 1
    \/ /\ \E k \in 1..Len(jobQueue) : jobQueue[k].imagePath[1] = r
       /\ Cardinality(executing) = poolWorkers
       /\ \A job \in executing : job.imagePath[1] = r

C3_FirstErrorWins ==
    \A c \in SummaryCalls :
        lvl[c].failedAt # 0 =>
            /\ lvl[c].pc \in {"returned", "responded"}
            /\ lvl[c].err = [kind |-> "chunk error", i |-> lvl[c].failedAt]
            /\ lvl[c].summary = NoSummary
            /\ lvl[c].summaries = [i \in 1..(lvl[c].failedAt - 1) |-> [kind |-> "chunk", i |-> i]]
            /\ lvl[c].executed = 1..lvl[c].failedAt
            /\ ~lvl[c].combined
            /\ lvl[c].pc = "responded" => lvl[c].status = 500

\* C3 witness: a call over three chunks whose second chunk failed has been
\* answered, the third chunk never having been run.
C3_Witness ==
    \E c \in SummaryCalls :
        /\ lvl[c].pc = "responded"
        /\ lvl[c].n >= 3
        /\ lvl[c].failedAt = 2
        /\ 3 \notin lvl[c].executed

\* C8: breaker trip.  From Closed with a zero counter, once one or two
\* recordFailure calls have completed, no recordSuccess in between, the
\* breaker is Closed and isCircuitOpen returns false; once three have, it is
\* Open with the counter back at 0, and isCircuitOpen returns true.
C8_BreakerTrip ==
    /\ []((InRecordFailure = {} /\ streak \in {1, 2}) =>
            /\ circuitState = Closed
            /\ failures = streak
            /\ ~IsCircuitOpenResult)
    /\ []((InRecordFailure = {} /\ streak = 3) =>
            /\ circuitState = Open
            /\ failures = 0
            /\ now - lastFailureTime <= RecoveryWindow => IsCircuitOpenResult)
    /\ [][\A h \in Handlers :
            (InRecordFailure = {} /\ streak \in {1, 2} /\ hpc[h] = "idle" /\ hpc'[h] # "idle")
                => hpc'[h] = "admitted"]_vars
    /\ [][\A h \in Handlers :
            (InRecordFailure = {} /\ streak = 3 /\ now - lastFailureTime <= RecoveryWindow
               /\ hpc[h] \in {"idle", "open_since"} /\ hpc'[h] # hpc[h])
                => hpc'[h] \in {"open_since", "rejected"}]_vars

\* C8 witness: right after the third failure in a row a request was refused.
C8_Witness ==
    /\ streak = 3
    /\ InRecordFailure = {}
    /\ trippedAt = now
    /\ \E h \in Handlers : hpc[h] = "rejected"

\* C9: once the breaker has tripped, every isCircuitOpen call returns true
\* until the recovery window since the trip has elapsed, whatever requests
\* already in flight record: no request is admitted within the window.
C9_OpenForWindow ==
    [][\A h \in Handlers :
        (hpc[h] = "idle" /\ hpc'[h] = "admitted") =>
            (trippedAt = ZeroTime \/ now - trippedAt > RecoveryWindow)]_vars

\* C10 as stated: with the breaker Open or HalfOpen, isCircuitOpen returns
\* false at most once per window (one trial request).
C10_Original == trialsThisWindow <= 1

\* C10 amended: a call that found the state Open returns true when at most
\* ten seconds have passed since lastFailureTime; when more have, it swaps
\* Open for HalfOpen and returns false.  HalfOpen is entered in no other way,
\* and every call that finds the state HalfOpen (or Closed) returns false.
C10_Amended ==
    /\ [][\A h \in Handlers :
            (hpc[h] = "open_since" /\ hpc'[h] # "open_since") =>
                IF now - lastFailureTime > RecoveryWindow
                THEN hpc'[h] = "open_cas" ELSE hpc'[h] = "rejected"]_vars
    /\ [][\A h \in Handlers :
            (hpc[h] = "open_cas" /\ hpc'[h] # "open_cas") =>
                /\ hpc'[h] = "admitted"
                /\ circuitState = Open => circuitState' = HalfOpen]_vars
    /\ [][(circuitState # HalfOpen /\ circuitState' = HalfOpen) =>
            /\ circuitState = Open
            /\ \E h \in Handlers : hpc[h] = "open_cas" /\ hpc'[h] = "admitted"]_vars
    /\ [][\A h \in Handlers :
            (hpc[h] = "idle" /\ hpc'[h] # "idle" /\ circuitState # Open) =>
                (circuitState' = circuitState /\ hpc'[h] = "admitted")]_vars

\* C10 witness: the window has elapsed, the breaker is HalfOpen, and two
\* requests have been admitted in it.
C10_Witness ==
    /\ circuitState = HalfOpen
    /\ trialsThisWindow = 2
    /\ now - lastFailureTime > RecoveryWindow
    /\ \A h \in Handlers : hpc[h] = "admitted"

\* C11: HalfOpen outcomes.  With the state HalfOpen, isCircuitOpen returns
\* false, a recordSuccess sets the state to Closed, and a single
\* recordFailure sets the state back to Open: its threshold test sends it
\* on to the store of Open.
C11_HalfOpenOutcomes ==
    /\ [][\A h \in Handlers :
            (circuitState = HalfOpen /\ hpc[h] = "idle" /\ hpc'[h] # "idle") =>
                hpc'[h] = "admitted"]_vars
    /\ [][\A h \in Handlers :
            (circuitState = HalfOpen /\ hpc[h] = "admitted" /\ hpc'[h] = "succ_reset") =>
                circuitState' = Closed]_vars
    /\ [][\A h \in Handlers :
            (circuitState = HalfOpen /\ hpc[h] = "fail_load" /\ hpc'[h] # "fail_load") =>
                hpc'[h] = "fail_open"]_vars

\* C12: success resets the count.  recordSuccess stores Closed and then 0 in
\* the counter; the counter never exceeds the number of recordFailure calls
\* begun since a recordSuccess last reset it, so recordFailure decides to open
\* the breaker only when at least three have, and nothing else opens it.
\* After a recordSuccess that no recordFailure overlapped the breaker is
\* Closed with the counter at 0.
C12_SuccessResets ==
    /\ [][\A h \in Handlers :
            (hpc[h] = "admitted" /\ hpc'[h] = "succ_reset") => circuitState' = Closed]_vars
    /\ [][\A h \in Handlers :
            (hpc[h] = "succ_reset" /\ hpc'[h] = "idle") => failures' = 0]_vars
    /\ [](Min(failures, FailureThreshold) <= sinceSuccess)
    /\ [][\A h \in Handlers :
            (hpc[h] = "fail_load" /\ hpc'[h] = "fail_open") => sinceSuccess >= 3]_vars
    /\ [][(circuitState # Open /\ circuitState' = Open) =>
            \E h \in Handlers : hpc[h] = "fail_open" /\ hpc'[h] = "fail_reset"]_vars
    /\ []((streak = 0 /\ InRecordFailure = {}) => (circuitState = Closed /\ failures = 0))

\* C12 witness: a failure was recorded, time has passed, a recordSuccess
\* has since reset the counter, and the breaker has never opened.
C12_Witness ==
    /\ lastFailureTime # ZeroTime
    /\ trippedAt = ZeroTime
    /\ now > lastFailureTime
    /\ streak = 0
    /\ sinceSuccess = 0
    /\ circuitState = Closed
    /\ failures = 0
    /\ \A h \in Handlers : hpc[h] = "idle"

\* C13: breaker state validity under concurrency.  In every reachable state
\* circuitState is Closed, Open or HalfOpen and the failure counter is not
\* negative.
C13_StateValid ==
    /\ circuitState \in {Closed, Open, HalfOpen}
    /\ failures \in Nat

\* C13 witness: one handler is about to store Open in recordFailure while
\* another is about to swap in isCircuitOpen.
C13_Witness ==
    \E h1, h2 \in Handlers :
        /\ hpc[h1] = "fail_open"
        /\ hpc[h2] = "open_cas"

\* C14: admission ceiling.  No checkSystemLoad call returns true while the
\* concurrent-job count is at or above the ceiling.
C14_Ceiling ==
    [][\A h \in Handlers :
        (lpc[h] \in {"load_cached", "load_mem"} /\ lpc'[h] = "count") =>
            currentJobs < MaxConcurrentJobs]_vars

\* C15: admission sample caching.  A call made less than two seconds after
\* the last sample takes no sample and returns the cached verdict, a cached
\* high-load verdict refusing it whatever the job count; and no sample is
\* taken less than two seconds after another.
C15_SampleCaching ==
    /\ [][\A h \in Handlers :
            (lpc[h] = "idle" /\ lpc'[h] # "idle" /\ now - lastCPUCheck < SamplePeriod) =>
                lpc'[h] = "load_cached"]_vars
    /\ [][\A h \in Handlers :
            (lpc[h] = "load_cached" /\ lpc'[h] # "load_cached") =>
                /\ lpc'[h] = (IF cpuLoadHigh THEN "refused" ELSE "count")
                /\ lastCPUCheck' = lastCPUCheck
                /\ cpuLoadHigh' = cpuLoadHigh]_vars
    /\ [][\A h \in Handlers :
            (lpc[h] = "load_stamp" /\ lpc'[h] # "load_stamp") =>
                ltime[h] - lastCPUCheck >= SamplePeriod]_vars


\* The requests that have been refused and not yet returned.
Refused503 == {h \in Handlers : gpc[h] = "refused503"}
Refused429 == {h \in Handlers : gpc[h] = "refused429"}

\* C16 as stated: a synchronous request refused by the breaker gate or by
\* the admission gate has called neither recordFailure nor recordSuccess,
\* has left circuitState, the failure counter and currentJobs as they were
\* and has started no unit execution.
C16_Original == \A h \in Refused503 \cup Refused429 : touched[h] = {}

\* C16, amended: a request refused by the breaker gate has written nothing.
\* A request refused by the admission gate has called neither recordFailure
\* nor recordSuccess, has left the failure counter and currentJobs as they
\* were and has started no unit execution; the one thing it may have written
\* is circuitState, from Open to HalfOpen, in its own isCircuitOpen call
\* after the recovery window.  The refusal itself writes none of
\* circuitState, failures, lastFailureTime and currentJobs.
C16_Amended ==
    /\ [](\A h \in Refused503 : touched[h] = {})
    /\ [](\A h \in Refused429 : touched[h] \subseteq {"halfOpened"})
    /\ [][\A h \in Handlers :
             (gpc[h] \in {"refused503", "refused429"} /\ gpc'[h] = "idle") =>
                 /\ circuitState' = circuitState
                 /\ failures' = failures
                 /\ lastFailureTime' = lastFailureTime
                 /\ currentJobs' = currentJobs]_vars
    /\ [][\A h \in Handlers :
             ("halfOpened" \notin touched[h] /\ "halfOpened" \in touched'[h]) =>
                 /\ gpc[h] = "idle"
                 /\ circuitState = Open
                 /\ circuitState' = HalfOpen
                 /\ WindowElapsed(now)]_vars

\* C16 witness: the breaker was Open with failures recorded, the window
\* passed, a request's isCircuitOpen made it HalfOpen, and the admission
\* gate then refused that request.
C16_Witness ==
    \E h \in Refused429 :
        /\ touched[h] = {"halfOpened"}
        /\ gates[h] = <<"breaker", "admission">>
        /\ circuitState = HalfOpen
        /\ lastFailureTime # ZeroTime

\* C17: every request, synchronous or asynchronous, passes the breaker check
\* and then the admission check before its batch execution starts or its job
\* is enqueued; a request the breaker refuses does not reach the admission
\* check.
C17_GateOrdering ==
    [][/\ \A h \in Handlers :
            (gpc[h] # "running" /\ gpc'[h] = "running") =>
                gates[h] = <<"breaker", "admission">>
       /\ \A h \in Handlers :
            gpc'[h] = "refused503" => gates'[h] = <<"breaker">>
       /\ \A c \in Clients :
            (cl[c].pc = "inserted" /\ cl'[c].pc = "accepted") =>
                cl[c].gates = <<"breaker", "admission">>]_vars

\* Job statuses that end a job.
Terminal == {"completed", "failed"}

\* C18: for every job, the only status changes that ever occur are
\* pending -> processing, processing -> completed and processing -> failed:
\* no job leaves completed or failed, and none goes from pending directly to
\* a terminal status.  (A job comes into being as pending, and the only
\* entry ever deleted is a pending one.)
C18_JobStateMachine ==
    [][\A id \in JobIds :
          jobs'[id].status # jobs[id].status =>
              <<jobs[id].status, jobs'[id].status>> \in
                  {<<"none", "pending">>, <<"pending", "none">>,
                   <<"pending", "processing">>,
                   <<"processing", "completed">>, <<"processing", "failed">>}]_vars

\* C18 witness: one job has gone through to completed and another to failed.
C18_Witness ==
    \E i, j \in JobIds :
        /\ jobs[i].status = "completed" /\ jobs[i].started
        /\ jobs[j].status = "failed" /\ jobs[j].started

\* C19: a status request for an id that submitJob returned answers pending
\* or processing, and never not_found, right after the submission and ever
\* after.
C19_Resolvable ==
    lastPoll.id # 0 => lastPoll.resp.status \in {"pending", "processing"}

Accepted == {c \in Clients : cl[c].pc = "accepted"}
Rejected == {c \in Clients : cl[c].pc = "rejected"}

\* C21: with the pending channel full, submitJob returns "" and deletes the
\* job it had stored, leaving the other entries and the channel as they
\* were; the generated id is not handed to the caller, no worker receives it,
\* and getJobStatus for it answers not_found.  Submissions are accepted only
\* into room the workers have made, so a burst larger than that has a
\* rejection.
C21_QueueFull ==
    /\ [][\A c \in Clients :
             (cl[c].pc = "inserted" /\ cl'[c].pc # "inserted") =>
                 IF Len(pending[cl[c].q]) >= PendingCap
                 THEN /\ cl'[c].pc = "rejected"
                      /\ cl'[c].id = 0
                      /\ jobs' = [jobs EXCEPT ![cl[c].job] = NoJob]
                      /\ pending' = pending
                 ELSE /\ cl'[c].pc = "accepted"
                      /\ cl'[c].id = cl[c].job]_vars
    /\ [](\A c \in Rejected :
             /\ jobs[cl[c].job] = NoJob
             /\ \A k \in Queues : \A i \in 1..Len(pending[k]) : pending[k][i] # cl[c].job
             /\ \A w \in processing : w.id # cl[c].job
             /\ lastPoll.id = cl[c].job => lastPoll.resp = NotFound)
    /\ [](\A k \in Queues : Len(pending[k]) <= PendingCap)
    /\ [](Cardinality(Accepted) <= FullDequeued)

\* C21 witness: of two submissions to the full queue, one found the room a
\* worker had made and the other was rejected, and a status request for the
\* rejected id was answered not_found.
C21_Witness ==
    \E c \in Rejected :
        /\ Accepted # {}
        /\ FullDequeued = 1
        /\ lastPoll.id = cl[c].job
        /\ lastPoll.resp = NotFound

\* The places of a job id in the channels, and the processJob calls for it.
InChannel(id) ==
    UNION {{<<k, i>> : i \in {j \in 1..Len(pending[k]) : pending[k][j] = id}} :
              k \in Queues}
WorkersOn(id) == {w \in processing : w.id = id}

\* C22: every accepted job id is delivered to exactly one queue worker,
\* once: an id is in a channel or with a worker at most once in all; while it
\* waits its job is untouched; a job is processing exactly while one worker
\* runs it, and a finished job is with no worker and in no channel.  So the
\* fields of a job have one writer.
C22_SingleWriter ==
    \A id \in JobIds :
        /\ Cardinality(InChannel(id)) + Cardinality(WorkersOn(id)) <= 1
        /\ \A c \in Accepted :
               cl[c].job = id =>
                   \/ InChannel(id) # {}
                   \/ WorkersOn(id) # {}
                   \/ jobs[id].status \in Terminal
        /\ InChannel(id) # {} => jobs[id].status = "pending"
        /\ \A w \in WorkersOn(id) :
               /\ w.q = jobs[id].q
               /\ jobs[id].status = IF w.pc = "run" THEN "processing" ELSE "pending"
        /\ jobs[id].status = "processing" => WorkersOn(id) # {}
        /\ jobs[id].status \in Terminal => (InChannel(id) = {} /\ WorkersOn(id) = {})

\* C22 witness: two worker loops of one queue are each running their own job.
C22_Witness ==
    \E v, w \in processing :
        /\ v.id # w.id
        /\ v.q = w.q
        /\ v.pc = "run" /\ w.pc = "run"
        /\ jobs[v.id].status = "processing" /\ jobs[w.id].status = "processing"

UnitFailed ==
    {h \in Handlers : gpc[h] = "ending" /\ gout[h].ran /\ gout[h].ocr.err # NilErr}

\* C24: for every OCR request, a multi-page PDF or a single image, a failing
\* OCR unit is absorbed: the extraction returns no error, and the result has
\* the unit's error text in the unit's place.
C24_UnitFailuresAreData ==
    \A h \in UnitFailed :
        /\ gout[h].err = NilErr
        /\ gout[h].pages = <<ErrorMarker(gout[h].ocr.err)>>
        /\ "recordFailure" \notin touched[h]

\* ------------------------------------------------- the dispatch loop alone

\* extractOCRFromPDF, lines 617-626, for a PDF of n pages with a pool of w
\* workers: batchSize, and i := 0.
PartitionBegin(n, w) ==
    /\ part.pc = "idle"
    /\ part' = [pc |-> "loop", n |-> n, w |-> w, batchSize |-> BatchSize(n, w),
                i |-> 0, ranges |-> <<>>]
    /\ UNCHANGED otherThanPart

\* Lines 631-648, one iteration: end, and go func(start, stop)(i, end).
PartitionDispatch ==
    /\ part.pc = "loop"
    /\ part.i < part.n
    /\ LET end == IF part.i + part.batchSize > part.n THEN part.n
                  ELSE part.i + part.batchSize
       IN  part' = [part EXCEPT !.ranges = Append(@, [start |-> part.i, stop |-> end]),
                                !.i = @ + part.batchSize]
    /\ UNCHANGED otherThanPart

\* Line 631, the loop condition fails; wg.Wait(), line 650.
PartitionWait ==
    /\ part.pc = "loop"
    /\ part.i >= part.n
    /\ part' = [part EXCEPT !.pc = "wait"]
    /\ UNCHANGED otherThanPart

\* Lines 650-659: the call returns.
PartitionReturn ==
    /\ part.pc = "wait"
    /\ part' = NoPart
    /\ UNCHANGED otherThanPart

NextPartition ==
    \/ \E n \in 1..MaxPages, w \in 1..MaxPoolWorkers : PartitionBegin(n, w)
    \/ PartitionDispatch
    \/ PartitionWait
    \/ PartitionReturn

SpecPartition == Init /\ [][NextPartition]_vars

\* C28: for N >= 1 pages and W workers the loop dispatches [i, min(i+b, N))
\* for i = 0, b, 2b, ... with b = min(4, max(1, N div W)); the sub-ranges
\* are contiguous, pairwise disjoint, none is empty, none holds more than 4
\* pages, and when the loop ends they cover exactly 0..N-1.  They are the
\* sub-ranges the pool model starts its tasks with.
C28_BatchPartition ==
    part.pc # "idle" =>
        LET b == Min(MaxBatchSize, Max(1, part.n \div part.w))
            r == part.ranges
        IN  /\ part.batchSize = b
            /\ \A k \in 1..Len(r) :
                   /\ r[k].start = (k - 1) * b
                   /\ r[k].stop = Min(r[k].start + b, part.n)
                   /\ r[k].start < r[k].stop
                   /\ r[k].stop - r[k].start <= MaxBatchSize
                   /\ k > 1 => r[k].start = r[k - 1].stop
            /\ \A j, k \in 1..Len(r) :
                   j # k => (r[j].start..(r[j].stop - 1)) \cap (r[k].start..(r[k].stop - 1)) = {}
            /\ part.pc = "wait" =>
                   /\ UNION {r[k].start..(r[k].stop - 1) : k \in 1..Len(r)} = 0..(part.n - 1)
                   /\ Len(r) = NumTasks(part.n, b)
                   /\ \A k \in 1..Len(r) :
                          /\ SubRanges(part.n, b)[k].start = r[k].start + 1
                          /\ SubRanges(part.n, b)[k].stop = r[k].stop + 1

\* The loop has ended with the cap of 4 binding and a shorter last range.
C28_Witness ==
    /\ part.pc = "wait"
    /\ part.n \div part.w > MaxBatchSize
    /\ part.batchSize = MaxBatchSize
    /\ Len(part.ranges) = 3
    /\ part.ranges[3].stop - part.ranges[3].start < MaxBatchSize

\* ------------------------------------------------ the first requests' init

\* initOCRPool, lines 417-428: the worker count for a value of OCR_WORKERS.
PoolWorkersFor(env) ==
    LET workers == IF env > 0 THEN env ELSE DefaultPoolWorkers
    IN  IF workers > MaxPoolWorkers THEN MaxPoolWorkers ELSE workers

\* A request reaches "if ocrPool == nil": handleExtractOCR at line 493 (past
\* its gates), handleExtractOCRAsync at line 266.
StartArrive(s, kind) ==
    /\ st[s].pc = "idle"
    /\ st' = [st EXCEPT ![s].pc = "check", ![s].kind = kind]
    /\ UNCHANGED <<ocrWorkersEnv, ocrPool, poolsMade, poolLoops, otherThanStart>>

\* "if ocrPool == nil" (lines 266 and 493): a plain read of the global.
StartCheck(s) ==
    /\ st[s].pc = "check"
    /\ st' = [st EXCEPT ![s].pc = IF ocrPool = 0 THEN "init" ELSE "ready"]
    /\ UNCHANGED <<ocrWorkersEnv, ocrPool, poolsMade, poolLoops, otherThanStart>>

\* initOCRPool, lines 417-433: the worker count, and a new pool becomes the
\* global one.
StartAssign(s) ==
    /\ st[s].pc = "init"
    /\ poolsMade' = poolsMade + 1
    /\ ocrPool' = poolsMade + 1
    /\ st' = [st EXCEPT ![s].pc = "loop",
                        ![s].workers = PoolWorkersFor(ocrWorkersEnv),
                        ![s].i = 0]
    /\ UNCHANGED <<ocrWorkersEnv, poolLoops, otherThanStart>>

\* initOCRPool, lines 436-438, one iteration: go ocrPool.worker(), on the
\* pool the global names at that moment.
StartLoop(s) ==
    /\ st[s].pc = "loop"
    /\ poolLoops' = [poolLoops EXCEPT ![ocrPool] = @ + 1]
    /\ st' = [st EXCEPT ![s].i = @ + 1,
                        ![s].pc = IF st[s].i + 1 < st[s].workers THEN "loop" ELSE "ready"]
    /\ UNCHANGED <<ocrWorkersEnv, ocrPool, poolsMade, otherThanStart>>

NextStart ==
    \/ \E s \in Starters, kind \in {"sync", "async"} : StartArrive(s, kind)
    \/ \E s \in Starters : StartCheck(s)
    \/ \E s \in Starters : StartAssign(s)
    \/ \E s \in Starters : StartLoop(s)

SpecStart == InitStart /\ [][NextStart]_vars

\* The initOCRPool calls in progress.
InInit == {s \in Starters : st[s].pc \in {"init", "loop"}}

\* C26: for every interleaving of concurrent first requests the lazy
\* initialization runs at most once: at most one pool is ever created, and
\* once no initialization is in progress the pool the global names has
\* exactly `workers` worker loops running on it.
C26_PoolStartedOnce ==
    /\ poolsMade <= 1
    /\ (ocrPool # 0 /\ InInit = {}) =>
           poolLoops[ocrPool] = PoolWorkersFor(ocrWorkersEnv)

\* The next access of each call in progress to a variable that is read and
\* written without a lock and without sync/atomic: <<caller, variable,
\* is it a write>>.  lastFailureTime: read at line 384, written at line 399;
\* lastCPUCheck: written at line 356; cpuLoadHigh: read at line 353, written
\* at lines 361, 370 and 373; globalJobQueue: written at line 97, read at
\* lines 105 and 295; ocrPool: read at lines 266, 493 and 437, written at
\* line 430.
PlainAccesses ==
    {<<"handler", h, "lastFailureTime", hpc[h] = "fail_time">> :
        h \in {x \in Handlers : hpc[x] \in {"open_since", "fail_time"}}}
    \cup {<<"handler", h, "lastCPUCheck", TRUE>> :
        h \in {x \in Handlers : lpc[x] = "load_stamp"}}
    \cup {<<"handler", h, "cpuLoadHigh", lpc[h] # "load_cached">> :
        h \in {x \in Handlers : lpc[x] \in {"load_cached", "load_high", "load_mem"}}}
    \cup {<<"client", c, "globalJobQueue", cl[c].pc = "init">> :
        c \in {x \in Clients : cl[x].pc \in {"init", "start", "submit"}}}
    \cup {<<"starter", s, "ocrPool", st[s].pc = "init">> :
        s \in {x \in Starters : st[x].pc \in {"check", "init", "loop"}}}

\* C25: every program-wide mutable variable is accessed only atomically or
\* under a lock: in no reachable state are two calls about to access the
\* same such variable, one of them writing, without synchronization.
C25_RaceFree ==
    \A a, b \in PlainAccesses :
        (a[3] = b[3] /\ (a[4] \/ b[4])) => (a[1] = b[1] /\ a[2] = b[2])

\* C27: exactly one job queue is ever installed as the global queue, and a
\* job accepted by any request is in the job map that status requests read
\* (the map of the global queue) from then on.
C27_QueueCreatedOnce ==
    /\ queuesMade <= 1
    /\ \A c \in Accepted :
           jobs[cl[c].id] # NoJob /\ jobs[cl[c].id].q = globalJobQueue

\* C29: in every reachable state, a job's Started is set exactly when its
\* status is processing, completed or failed, and its Finished and its
\* Result are set exactly when its status is completed or failed.
C29_TimestampsFollowStatus ==
    \A id \in JobIds :
        jobs[id] # NoJob =>
            /\ jobs[id].started <=>
                   jobs[id].status \in {"processing", "completed", "failed"}
            /\ jobs[id].finished <=> jobs[id].status \in {"completed", "failed"}
            /\ (jobs[id].result # NilResult) <=>
                   jobs[id].status \in {"completed", "failed"}

\* One job is being processed (started, not finished) while another has
\* failed (started, finished, with its result).
C29_Witness ==
    \E i, j \in JobIds :
        /\ jobs[i].status = "processing" /\ jobs[i].started /\ ~jobs[i].finished
        /\ jobs[j].status = "failed" /\ jobs[j].finished
        /\ jobs[j].result = OCRJobResult(FALSE)

\* The OCRJobs for page i of request r waiting in the pool's channel, and
\* the ones a worker loop is running.
QueuedFor(r, i) == {k \in 1..Len(jobQueue) : jobQueue[k].imagePath = <<r, i>>}
RunningFor(r, i) == {job \in executing : job.imagePath = <<r, i>>}

\* The positions at which page i was sent on request r's resultChan.
SentFor(r, i) == {k \in 1..Len(arrival[r]) : arrival[r][k] = i}

\* C30: each unit of a batch runs exactly once.  Page i belongs to one
\* sub-range task; before the task reaches it, it has not run and no job
\* exists for it; while the task is at it, it is either with the pool (one
\* job: queued, running, or its result waiting for the task) or about to
\* run directly, never both; once the task is past it, it has run, its
\* result was sent once and no job is left.  No send on resultChan can
\* block, and when extractOCRFromPDF returns every page has run and every
\* index was sent exactly once.
C30_EachUnitOnce ==
    \A r \in Requests :
        req[r].pc \in {"running", "returned"} =>
            LET n == req[r].n
            IN  /\ \A i \in 1..n :
                       LET ts == {t \in DOMAIN tasks[r] :
                                     tasks[r][t].start <= i /\ i < tasks[r][t].stop}
                           withPool == Cardinality(QueuedFor(r, i))
                                         + Cardinality(RunningFor(r, i))
                       IN  /\ Cardinality(ts) = 1
                           /\ \A t \in ts :
                                  LET tk == tasks[r][t]
                                  IN  /\ i < tk.idx =>
                                             /\ ocrOutcome[r][i] # NotRun
                                             /\ withPool = 0
                                             /\ Cardinality(SentFor(r, i)) = 1
                                      /\ i > tk.idx =>
                                             /\ ocrOutcome[r][i] = NotRun
                                             /\ withPool = 0
                                             /\ SentFor(r, i) = {}
                                      /\ i = tk.idx =>
                                             /\ SentFor(r, i) = {}
                                             /\ tk.pc \in {"submit", "direct"} =>
                                                    /\ ocrOutcome[r][i] = NotRun
                                                    /\ withPool = 0
                                                    /\ tk.result = <<>>
                                             /\ tk.pc = "wait" =>
                                                    /\ withPool + Len(tk.result) = 1
                                                    /\ tk.result = <<>> <=>
                                                           ocrOutcome[r][i] = NotRun
                                                    /\ ocrOutcome[r][i].by \in {"none", "pool"}
                /\ req[r].pc = "running" =>
                       /\ Len(resultChan[r]) = Len(arrival[r])
                       /\ \A k \in 1..Len(resultChan[r]) :
                              resultChan[r][k].index = arrival[r][k]
                       /\ \A t \in DOMAIN tasks[r] :
                              tasks[r][t].pc \in {"submit", "wait", "direct"} =>
                                  Len(resultChan[r]) < ResultChanCap(n)
                /\ req[r].pc = "returned" =>
                       /\ Len(arrival[r]) = n
                       /\ \A i \in 1..n :
                              /\ ocrOutcome[r][i] # NotRun
                              /\ Cardinality(SentFor(r, i)) = 1

\* Two batches have returned, a page of one run by a pool worker and a page
\* of the other run directly by its task.
C30_Witness ==
    \E r, q \in Requests :
        /\ req[r].pc = "returned" /\ req[q].pc = "returned"
        /\ \E i \in 1..req[r].n : ocrOutcome[r][i].by = "pool"
        /\ \E j \in 1..req[q].n : ocrOutcome[q][j].by = "direct"

\* The processOCR calls waiting on their result channel (line 458).
Waiting ==
    {c \in Requests \X (1..MaxUnits) :
        /\ req[c[1]].pc = "running"
        /\ c[2] \in DOMAIN tasks[c[1]]
        /\ tasks[c[1]][c[2]].pc = "wait"}

\* C31: with several callers in processOCR at once, a result channel holds
\* only the result of the unit its own caller submitted, what a caller sends
\* on for page idx is the outcome of page idx of its own request, and the
\* channel of a job a worker is running is empty, so the worker's send
\* never blocks.
C31_ResultRouting ==
    /\ \A r \in Requests :
           req[r].pc = "running" =>
               /\ \A t \in DOMAIN tasks[r] :
                      tasks[r][t].result # <<>> =>
                          /\ <<r, t>> \in Waiting
                          /\ Len(tasks[r][t].result) = 1
                          /\ \E ok \in BOOLEAN :
                                 tasks[r][t].result[1] =
                                     PerformOCRDirect(<<r, tasks[r][t].idx>>, ok)
               /\ \A k \in 1..Len(resultChan[r]) :
                      LET e == resultChan[r][k]
                      IN  \E ok \in BOOLEAN :
                              /\ e.text = PageText(PerformOCRDirect(<<r, e.index>>, ok))
                              /\ e.err = PerformOCRDirect(<<r, e.index>>, ok).err
    /\ \A job \in executing :
           /\ <<job.result[1], job.result[2]>> \in Waiting
           /\ job.imagePath = <<job.result[1], tasks[job.result[1]][job.result[2]].idx>>
           /\ tasks[job.result[1]][job.result[2]].result = <<>>

\* Two callers wait at once: one already has its result in its channel
\* while a worker is still running the other's unit.
C31_Witness ==
    \E c, d \in Waiting :
        /\ c # d
        /\ tasks[c[1]][c[2]].result # <<>>
        /\ \E job \in executing : job.result = d

\* ------------------------------------------- three first requests at once

\* The job ids of this part: one accepted already, one for each client.
RacedIds == 1..(MaxClients + 1)

\* A state three concurrent first asynchronous requests reach.  Clients 1
\* and 2 both found globalJobQueue nil (line 263).  Client 1 has assigned
\* queue 1 (lines 97-102) and not yet started its worker loops; client 2 is
\* about to assign.  A third request found the global set, stored job 1 in
\* queue 1 and sent its id on queue 1's channel (lines 201-228), and left
\* with 202.
InitRaced ==
    /\ InitOutsideQueue
    /\ globalJobQueue = 1
    /\ queuesMade = 1
    /\ queueWorkers = [k \in Queues |-> 0]
    /\ jobs = [id \in RacedIds |-> IF id = 1 THEN [NewJob EXCEPT !.q = 1] ELSE NoJob]
    /\ pending = [k \in Queues |-> IF k = 1 THEN <<1>> ELSE <<>>]
    /\ nextId = 2
    /\ processing = {}
    /\ cl = [c \in Clients |->
                IF c = 1 THEN [NoClient EXCEPT !.pc = "start", !.w = DefaultQueueWorkers]
                ELSE [NoClient EXCEPT !.pc = "init"]]
    /\ lastPoll = NoPoll

\* The requests go on from there.
NextRaced ==
    \/ \E c \in Clients : InitJobQueueAssign(c)
    \/ \E c \in Clients : InitJobQueueStart(c)
    \/ \E c \in Clients : AsyncSubmitInsert(c)
    \/ \E c \in Clients : AsyncSubmitSend(c)
    \/ \E k \in Queues : QueueWorkerReceive(k)
    \/ \E w \in processing : ProcessLookup(w)
    \/ \E w \in processing : ProcessStart(w)
    \/ \E w \in processing, ok \in BOOLEAN : ProcessFinish(w, ok)
    \/ \E c \in Clients : GetJobStatus(c)

SpecRaced == InitRaced /\ [][NextRaced]_vars

\* Scheduling: every handler goroutine and every worker loop that can take
\* its next step takes it eventually, and every performOCRJob call returns.
\* Status requests need not arrive.
FairnessRaced ==
    /\ \A c \in Clients :
          /\ WF_vars(InitJobQueueAssign(c))
          /\ WF_vars(InitJobQueueStart(c))
          /\ WF_vars(AsyncSubmitInsert(c))
          /\ WF_vars(AsyncSubmitSend(c))
    /\ \A k \in Queues :
          /\ WF_vars(QueueWorkerReceive(k))
          /\ \A id \in RacedIds :
                /\ WF_vars(ProcessLookup([id |-> id, q |-> k, pc |-> "lookup"]))
                /\ WF_vars(ProcessStart([id |-> id, q |-> k, pc |-> "mark"]))
                /\ WF_vars(\E ok \in BOOLEAN :
                               ProcessFinish([id |-> id, q |-> k, pc |-> "run"], ok))

FairSpecRaced == SpecRaced /\ FairnessRaced

\* C32: provided every unit execution terminates and scheduling is fair,
\* every job id accepted by submitJob (sent on a pending channel) is
\* eventually dequeued by a queue worker and eventually reaches completed
\* or failed.
C32_AcceptedJobsFinish ==
    \A id \in RacedIds :
        (InChannel(id) # {}) ~> (InChannel(id) = {} /\ jobs[id].status \in Terminal)

\* The jobs whose status is "processing".
ProcessingJobs == {id \in DOMAIN jobs : jobs[id].status = "processing"}

\* C33: in every reachable state the number of jobs with status processing
\* is at most the configured number of queue workers, and the accepted ids
\* waiting in a pending channel are at most its capacity.
C33_BoundedJobConcurrency ==
    /\ Cardinality(ProcessingJobs) <= DefaultQueueWorkers
    /\ \A k \in Queues : Len(pending[k]) <= PendingCap

\* C34: for every finished job the status is completed exactly when its
\* result has Success = true and failed exactly when Success = false; the
\* status field of the response getJobStatus returns for a job equals the
\* job's own status in every state, and a terminal answer once given stays
\* the job's status.
C34_StatusAgreesWithResult ==
    /\ \A id \in JobIds :
           jobs[id] # NoJob =>
               /\ jobs[id].status \in Terminal =>
                      /\ jobs[id].status = "completed" <=> jobs[id].result.success
                      /\ jobs[id].status = "failed" <=> ~jobs[id].result.success
               /\ StatusResponse(jobs[id]).status = jobs[id].status
    /\ (lastPoll.id # 0 /\ lastPoll.resp.status \in Terminal) =>
           /\ jobs[lastPoll.id].status = lastPoll.resp.status
           /\ lastPoll.resp = jobs[lastPoll.id].result

\* One job was polled after it failed and answered "failed" without
\* success, while the other job has completed.
C34_Witness ==
    /\ lastPoll.id # 0
    /\ lastPoll.resp = [success |-> FALSE, status |-> "failed"]
    /\ jobs[lastPoll.id].status = "failed"
    /\ \E id \in JobIds : jobs[id].status = "completed" /\ jobs[id].result.success

\* The synchronous requests between line 489 and their return.
InFlight == {h \in Handlers : gpc[h] \in {"counted", "running", "ending"}}

\* C35: currentJobs is incremented once by each admitted synchronous
\* request and decremented once when it ends, on any return path: in every
\* reachable state it equals the number of admitted requests in flight, is
\* never negative and is 0 when none is in flight; a request that has not
\* passed line 489 has not touched it.
C35_CounterBalanced ==
    /\ currentJobs = Cardinality(InFlight)
    /\ currentJobs >= 0
    /\ InFlight = {} => currentJobs = 0
    /\ \A h \in Handlers : h \in InFlight <=> "currentJobs" \in touched[h]

\* Two admitted requests are counted: one is returning on a validation
\* error, the other after an extraction error.
C35_Witness ==
    /\ currentJobs = 2
    /\ \E h, g \in Handlers :
           /\ gpc[h] = "ending" /\ gout[h].kind = "invalid"
           /\ gpc[g] = "ending" /\ "recordFailure" \in touched[g]

\* C36: across any interleaving the breaker's state changes only from
\* Closed or HalfOpen to Open, by the store of a recordFailure that found
\* the counter at 3 or more; from Open to HalfOpen, by the compare-and-swap
\* of isCircuitOpen; and from any state to Closed, by the store of
\* recordSuccess.  HalfOpen is never entered from Closed.
C36_Transitions ==
    [][circuitState' # circuitState =>
          \/ /\ circuitState \in {Closed, HalfOpen}
             /\ circuitState' = Open
             /\ \E h \in Handlers : hpc[h] = "fail_open" /\ hpc'[h] = "fail_reset"
          \/ /\ circuitState = Open
             /\ circuitState' = HalfOpen
             /\ \E h \in Handlers : hpc[h] = "open_cas" /\ hpc'[h] = "admitted"
          \/ /\ circuitState' = Closed
             /\ \E h \in Handlers : hpc[h] = "admitted" /\ hpc'[h] = "succ_reset"]_vars

\* A recordSuccess has closed the breaker between an isCircuitOpen call's
\* load of Open and its compare-and-swap, which comes next.
C36_Witness ==
    /\ circuitState = Closed
    /\ trippedAt # ZeroTime
    /\ \E h \in Handlers : hpc[h] = "open_cas"
    /\ \E g \in Handlers : hpc[g] = "succ_reset"

\* What a synchronous request has fed the breaker with.
Fed(h) == touched[h] \cap {"recordFailure", "recordSuccess"}

\* C37: an admitted synchronous request calls recordFailure exactly when
\* its extraction function returns an error (the step before the OCR
\* failed, or the OCR of a single image failed) and recordSuccess exactly
\* when it returns without error; a PDF whose page failed OCR and was
\* replaced by an error marker calls recordSuccess; a request ending on a
\* validation error, and a request whose extraction has not returned,
\* call neither.
C37_BreakerFeed ==
    \A h \in Handlers :
        /\ gpc[h] # "ending" => Fed(h) = {}
        /\ gpc[h] = "ending" =>
               /\ gout[h].kind = "invalid" => Fed(h) = {}
               /\ gout[h].kind \in {"pdf", "image"} =>
                      /\ Fed(h) = IF gout[h].err # NilErr THEN {"recordFailure"}
                                  ELSE {"recordSuccess"}
                      /\ gout[h].err # NilErr <=>
                             \/ ~gout[h].ran
                             \/ gout[h].kind = "image" /\ gout[h].ocr.err # NilErr
               /\ (gout[h].kind = "pdf" /\ gout[h].ran /\ gout[h].ocr.err # NilErr) =>
                      /\ Fed(h) = {"recordSuccess"}
                      /\ gout[h].pages = <<ErrorMarker(gout[h].ocr.err)>>

\* A PDF request whose page failed OCR is ending after recordSuccess while
\* an image request whose OCR failed is ending after recordFailure.
C37_Witness ==
    \E h, g \in Handlers :
        /\ gpc[h] = "ending" /\ gout[h].kind = "pdf" /\ gout[h].ran
        /\ gout[h].ocr.err # NilErr /\ Fed(h) = {"recordSuccess"}
        /\ gpc[g] = "ending" /\ gout[g].kind = "image" /\ gout[g].ran
        /\ gout[g].ocr.err # NilErr /\ Fed(g) = {"recordFailure"}

\* C38: every recordFailure call, whatever the breaker's state (Open
\* included), sets the last-failure timestamp to the time of the call, and
\* nothing else changes it; an isCircuitOpen call that finds the breaker
\* Open returns true exactly while no more than 10s have passed since that
\* timestamp, the time of the most recent recordFailure, not of the trip.
C38_WindowRestarts ==
    /\ [][\A h \in Handlers :
            (hpc[h] = "fail_time" /\ hpc'[h] # "fail_time") => lastFailureTime' = now]_vars
    /\ [][lastFailureTime' # lastFailureTime =>
            \E h \in Handlers : hpc[h] = "fail_time" /\ hpc'[h] = "fail_load"]_vars
    /\ [][\A h \in Handlers :
            (hpc[h] = "open_since" /\ hpc'[h] # "open_since") =>
                (hpc'[h] = "rejected" <=> now - lastFailureTime <= RecoveryWindow)]_vars

\* More than 10s after the trip a request is refused, because a request
\* that was in flight failed after the trip, with the breaker Open.
C38_Witness ==
    /\ circuitState = Open
    /\ trippedAt # ZeroTime
    /\ now - trippedAt > RecoveryWindow
    /\ trippedAt < lastFailureTime
    /\ now - lastFailureTime <= RecoveryWindow
    /\ \E h \in Handlers : hpc[h] = "rejected"

\* ------------------------------------------------------ chunkTextByPages

\* The texts: "a" is any character that ends no sentence.
Texts == UNION {[1..n -> {"a", "."}] : n \in 0..MaxTextLen}

\* The characters a chunk may be cut after (lines 134-136).
SentenceEnds == {".", "?", "!"}

\* Lines 134-138 for the chunk text[i:end]: the largest index in the chunk
\* of a sentence end, -1 without one (strings.LastIndex, math.Max).
LastSentenceEnd(text, i, end) ==
    LET at == {k \in 0..(end - i - 1) : text[i + k + 1] \in SentenceEnds}
    IN  IF at = {} THEN 0 - 1 ELSE CHOOSE k \in at : \A j \in at : j <= k

\* chunkTextByPages, lines 114-124: the early returns with the whole text
\* as one chunk, or chunkSize and i := 0.
ChunkTextBegin(text, totalPages, pagesPerChunk) ==
    /\ ck.pc = "idle"
    /\ LET avgCharsPerPage == IF totalPages > 0 THEN Len(text) \div totalPages ELSE 0
           chunkSize == avgCharsPerPage * pagesPerChunk
           whole == totalPages <= 0 \/ pagesPerChunk <= 0 \/ chunkSize >= Len(text)
       IN  ck' = [pc |-> IF whole THEN "done" ELSE "loop",
                  text |-> text, totalPages |-> totalPages,
                  pagesPerChunk |-> pagesPerChunk, chunkSize |-> chunkSize, i |-> 0,
                  ranges |-> IF whole THEN <<[start |-> 0, stop |-> Len(text)]>>
                             ELSE <<>>]
    /\ UNCHANGED otherThanChunk

\* Lines 127-147, one iteration: the chunk text[i:end], cut after its last
\* sentence end when that lies in its second half, is appended, and
\* i += chunkSize.  The list is followed up to one chunk more than the text
\* has characters.
ChunkTextLoop ==
    /\ ck.pc = "loop"
    /\ ck.i < Len(ck.text)
    /\ Len(ck.ranges) <= MaxTextLen
    /\ LET end == IF ck.i + ck.chunkSize > Len(ck.text) THEN Len(ck.text)
                  ELSE ck.i + ck.chunkSize
           lastSentenceEnd == LastSentenceEnd(ck.text, ck.i, end)
           cut == end < Len(ck.text) /\ lastSentenceEnd > (end - ck.i) \div 2
           stop == IF cut THEN ck.i + lastSentenceEnd + 1 ELSE end
           i1 == IF cut THEN ck.i + lastSentenceEnd + 1 - ck.chunkSize ELSE ck.i
       IN  ck' = [ck EXCEPT !.ranges = Append(@, [start |-> ck.i, stop |-> stop]),
                            !.i = i1 + ck.chunkSize]
    /\ UNCHANGED otherThanChunk

\* Line 127, the loop condition fails, and line 150; or an early return.
ChunkTextReturn ==
    /\ \/ ck.pc = "done"
       \/ ck.pc = "loop" /\ ck.i >= Len(ck.text)
    /\ ck' = [ck EXCEPT !.pc = "returned"]
    /\ UNCHANGED otherThanChunk

NextChunkText ==
    \/ \E text \in Texts, totalPages \in 0..(MaxTextLen + 1),
          pagesPerChunk \in 0..MaxTextLen :
            ChunkTextBegin(text, totalPages, pagesPerChunk)
    \/ ChunkTextLoop
    \/ ChunkTextReturn

SpecChunkText == Init /\ [][NextChunkText]_vars

\* A call that has begun takes its next step.
FairSpecChunkText ==
    SpecChunkText /\ WF_vars(ChunkTextLoop) /\ WF_vars(ChunkTextReturn)

\* C39: for every text, totalPages and pagesPerChunk (a non-empty text
\* shorter than totalPages included) chunkTextByPages terminates, and the
\* chunks it returns have source ranges that are contiguous, in order, and
\* cover the whole text.
C39_ChunkingTerminates ==
    /\ (ck.pc # "idle") ~> (ck.pc = "returned")
    /\ [][(ck.pc = "loop" /\ ck'.ranges # ck.ranges) => ck'.i > ck.i]_vars
    /\ [](ck.pc = "returned" =>
             /\ ck.ranges # <<>>
             /\ ck.ranges[1].start = 0
             /\ ck.ranges[Len(ck.ranges)].stop = Len(ck.text)
             /\ \A k \in 1..Len(ck.ranges) :
                    /\ ck.ranges[k].start <= ck.ranges[k].stop
                    /\ k > 1 => ck.ranges[k].start = ck.ranges[k - 1].stop)

====
